---- MODULE Spec2Model ----
(***************************************************************************)
(* git-share: the relay's blob store (internal/server/store.go), the relay *)
(* HTTP handlers (internal/server/server.go) and the send / receive        *)
(* commands (cmd/send.go, cmd/receive.go) with the code scheme and cipher  *)
(* of internal/crypto.                                                     *)
(*                                                                         *)
(* Time is measured in ticks; time.Duration and int are signed integers of *)
(* IntBits bits (the source has 64), time.Second is Second ticks.          *)
(***************************************************************************)
EXTENDS Integers, Sequences, FiniteSets, TLC

\* ------------------------------------------------------------------ bounds
NumHandlers == 2      \* request-handling goroutines of the relay
MaxTime == 2          \* the clock stops after this many seconds
MaxReqs == 3          \* requests the relay accepts in one run
IntBits == 5          \* width of int and time.Duration in the model
Second == 2           \* ticks in one time.Second
MaxTTLSeconds == 2    \* Config.MaxTTL in seconds
MaxSize == 2          \* Config.MaxSize in body units
CleanupSeconds == 1   \* interval of the sweeper's ticker in seconds

\* --------------------------------------------------------- program values
StatusOK == 200
StatusCreated == 201
StatusBadRequest == 400
StatusNotFound == 404
StatusConflict == 409

Handlers == 1..NumHandlers
None == 0

MaxInt == 2^(IntBits - 1) - 1
MinInt == -(2^(IntBits - 1))

\* two's complement wrap-around of the machine integer
Wrap(x) ==
  LET m == 2^IntBits
      r == x % m
  IN IF r > MaxInt THEN r - m ELSE r

\* Config.MaxTTL, a time.Duration
MaxTTL == MaxTTLSeconds * Second

\* code IDs that requests carry ("" is the empty string)
CodeIDs == {"a", "b"}

\* the text of a data field: a tagged value, so that plain text and base64
\* text are told apart; EmptyStr is the empty string
Str(s) == <<"str", s>>
EmptyStr == Str("")
DataStrings == {Str("d1"), Str("d2")}

\* []byte(s) and string(b): a byte slice made from a string, and back
Bytes(s) == <<"bytes", s>>
String(b) == b[2]
\* the nil byte slice
Nil == <<>>

\* ------------------------------------------------------------------ state
VARIABLES
  blobs,     \* Store.blobs: the map codeID -> Blob (its domain is the key set)
  mu,        \* Store.mu: the goroutine holding the write lock, or None
  now,       \* time.Now()
  handler,   \* per request goroutine: the frame of the handler it runs
  sweeper,   \* the goroutine of StartCleanupLoop: its position, the ticker's
             \* channel, the done channel and, as history, when it was closed
  reqs,      \* number of requests accepted so far
  ins,       \* history, per code ID: n, the number of successful insertions;
             \* data, what the last one stored; got, how often it was returned;
             \* gone, the number of deletions
  cli,       \* per run of the send / receive command: its frame
  wire       \* history: the requests transmitted to the relay

vars == <<blobs, mu, now, handler, sweeper, reqs, ins, cli, wire>>

\* the state of the commands
cliVars == <<cli, wire>>

SweeperId == NumHandlers + 1

\* a field left out of a JSON response (omitempty)
NoExpiry == <<"rfc3339">>

NoReq == [kind |-> "none", size |-> 0, code_id |-> "", data |-> EmptyStr, ttl |-> 0]
NoResp == [status |-> 0, ok |-> FALSE, data |-> EmptyStr, expiry |-> NoExpiry, error |-> ""]

IdleFrame ==
  [pc |-> "idle", op |-> "none", req |-> NoReq, id |-> "", ttl |-> 0,
   ok |-> FALSE, data |-> Nil, count |-> 0, resp |-> NoResp,
   inv |-> 0, fin |-> 0, seq |-> 0, cause |-> "none"]

\* the runs of the commands: one of send, two of receive
Senders == {"s1"}
Receivers == {"r1", "r2"}
Clients == Senders \cup Receivers

\* an absent byte slice, an absent string of words
NoBytes == <<"none">>
NoWords == <<>>

\* a command that has not run yet
StartFrame ==
  [pc |-> "start", conn |-> None, isCommit |-> FALSE, code |-> NoWords,
   codeID |-> "", passphrase |-> NoWords, patch |-> NoBytes, req |-> NoReq,
   stdout |-> <<>>, stderr |-> <<>>, expiry |-> NoExpiry, err |-> ""]

\* NewStore / New: an empty map, the lock free, every goroutine idle
InitRelay ==
  /\ blobs = <<>>
  /\ mu = None
  /\ now = 0
  /\ handler = [p \in Handlers |-> IdleFrame]
  /\ sweeper = [pc |-> "select", removed |-> 0, tick |-> FALSE, done |-> FALSE,
                 stopAt |-> 0]
  /\ reqs = 0
  /\ ins = [id \in CodeIDs |-> [n |-> 0, data |-> Nil, got |-> 0, gone |-> 0]]

\* the relay on its own: no command runs, the requests come from raw clients
Init == InitRelay /\ cli = <<>> /\ wire = {}

\* the relay and the commands, none started yet
InitCLI == InitRelay /\ cli = [c \in Clients |-> StartFrame] /\ wire = {}

\* ------------------------------------------------------------ the store
\* a delete that removes nothing
Delete_Nothing(m, id) == m

\* delete(s.blobs, id)
Delete(m, id) == [k \in (DOMAIN m) \ {id} |-> m[k]]

\* an assignment that stamps every entry of the map with the new creation time
Store_Restamps(m, id, b) ==
  [k \in (DOMAIN m) \cup {id} |->
     IF k = id THEN b ELSE [m[k] EXCEPT !.CreatedAt = b.CreatedAt]]

\* s.blobs[id] = b
Store(m, id, b) == [k \in (DOMAIN m) \cup {id} |-> IF k = id THEN b ELSE m[k]]

\* a Put without the existence check: it stores and answers true every time
Put_Always(m, codeID, data, ttl, t) ==
  [ok |-> TRUE,
   blobs |-> Store(m, codeID, [Data |-> data, CreatedAt |-> t, TTL |-> ttl])]

\* a Put that answers false for a present code ID but overwrites its entry
Put_Overwrites(m, codeID, data, ttl, t) ==
  [ok |-> codeID \notin DOMAIN m,
   blobs |-> Store(m, codeID, [Data |-> data, CreatedAt |-> t, TTL |-> ttl])]

\* a Put that answers false for a present code ID and drops its entry
Put_RemovesDuplicate(m, codeID, data, ttl, t) ==
  IF codeID \in DOMAIN m
  THEN [ok |-> FALSE, blobs |-> Delete(m, codeID)]
  ELSE [ok |-> TRUE,
        blobs |-> Store(m, codeID, [Data |-> data, CreatedAt |-> t, TTL |-> ttl])]

\* Store.Put under the lock: the result and the map it leaves
Put(m, codeID, data, ttl, t) ==
  IF codeID \in DOMAIN m
  THEN [ok |-> FALSE, blobs |-> m]
  ELSE [ok |-> TRUE,
        blobs |-> Store(m, codeID, [Data |-> data, CreatedAt |-> t, TTL |-> ttl])]

\* a TTL check that never fires
GetExpired_Never(blob, t) == FALSE

\* a TTL check of GetAndDelete that already fires when the age equals the TTL
GetExpired_AtTTL(blob, t) == t - blob.CreatedAt >= blob.TTL

\* the TTL check of GetAndDelete: time.Since(blob.CreatedAt) > blob.TTL
GetExpired(blob, t) == t - blob.CreatedAt > blob.TTL

\* a GetAndDelete that reads the entry and deletes nothing
GetAndDelete_Peek(m, codeID, t) ==
  IF codeID \notin DOMAIN m \/ GetExpired(m[codeID], t)
  THEN [data |-> Nil, blobs |-> m]
  ELSE [data |-> m[codeID].Data, blobs |-> m]

\* a GetAndDelete that returns the data and leaves the entry in the map
GetAndDelete_KeepsEntry(m, codeID, t) ==
  IF codeID \notin DOMAIN m
  THEN [data |-> Nil, blobs |-> m]
  ELSE IF GetExpired(m[codeID], t)
       THEN [data |-> Nil, blobs |-> Delete(m, codeID)]
       ELSE [data |-> m[codeID].Data, blobs |-> m]

\* a GetAndDelete that returns nil for an expired entry and leaves it in the map
GetAndDelete_KeepsExpired(m, codeID, t) ==
  IF codeID \notin DOMAIN m
  THEN [data |-> Nil, blobs |-> m]
  ELSE IF GetExpired(m[codeID], t)
       THEN [data |-> Nil, blobs |-> m]
       ELSE [data |-> m[codeID].Data, blobs |-> Delete(m, codeID)]

\* a GetAndDelete that deletes the entry and then has no data to return
GetAndDelete_LosesData(m, codeID, t) ==
  IF codeID \notin DOMAIN m
  THEN [data |-> Nil, blobs |-> m]
  ELSE [data |-> Nil, blobs |-> Delete(m, codeID)]

\* a GetAndDelete that returns an empty, non-nil slice for an expired entry
GetAndDelete_ExpiredEmpty(m, codeID, t) ==
  IF codeID \notin DOMAIN m
  THEN [data |-> Nil, blobs |-> m]
  ELSE IF GetExpired(m[codeID], t)
       THEN [data |-> Bytes(EmptyStr), blobs |-> Delete(m, codeID)]
       ELSE [data |-> m[codeID].Data, blobs |-> Delete(m, codeID)]

\* Store.GetAndDelete under the lock: the data returned and the map it leaves
GetAndDelete(m, codeID, t) ==
  IF codeID \notin DOMAIN m
  THEN [data |-> Nil, blobs |-> m]
  ELSE IF GetExpired(m[codeID], t)
       THEN [data |-> Nil, blobs |-> Delete(m, codeID)]
       ELSE [data |-> m[codeID].Data, blobs |-> Delete(m, codeID)]

\* a TTL check of Cleanup that never fires
CleanupExpired_Never(blob, t) == FALSE

\* a TTL check that already fires when the age equals the TTL
CleanupExpired_AtTTL(blob, t) == t - blob.CreatedAt >= blob.TTL

\* the TTL check of Cleanup: now.Sub(blob.CreatedAt) > blob.TTL
CleanupExpired(blob, t) == t - blob.CreatedAt > blob.TTL

\* the range loop of Cleanup over the keys still to visit
RECURSIVE CleanupLoop(_, _, _, _)
CleanupLoop(m, todo, removed, t) ==
  IF todo = {}
  THEN [removed |-> removed, blobs |-> m]
  ELSE LET id == CHOOSE k \in todo : TRUE
       IN IF CleanupExpired(m[id], t)
          THEN CleanupLoop(Delete(m, id), todo \ {id}, removed + 1, t)
          ELSE CleanupLoop(m, todo \ {id}, removed, t)

\* Store.Cleanup under the lock: the count returned and the map it leaves
Cleanup(m, t) == CleanupLoop(m, DOMAIN m, 0, t)

\* a Count that only tells an empty map from one with entries
Count_NonEmpty(m) == IF DOMAIN m = {} THEN 0 ELSE 1

\* Store.Count
Count(m) == Cardinality(DOMAIN m)

\* ------------------------------------------------------- the relay server
\* the bodies a client may post to /api/send: JSON objects of SendRequest
\* within and beyond the size limit, and one body that is not JSON
ReqTTLs == {1}

SendBodies ==
  [kind : {"json"}, size : {1}, code_id : {"a"}, data : DataStrings, ttl : ReqTTLs]
  \cup [kind : {"json"}, size : {1}, code_id : {"b"}, data : {Str("d1")}, ttl : ReqTTLs]

\* http.MaxBytesReader + json.Decoder.Decode: does the body decode?
DecodeOK(body) == body.size <= MaxSize /\ body.kind = "json"

\* expiry.Format(time.RFC3339): the instant, cut to whole seconds
FormatRFC3339(t) == <<"rfc3339", t \div Second>>

SendResponse(status, ok, expiry, error) ==
  [status |-> status, ok |-> ok, data |-> EmptyStr, expiry |-> expiry, error |-> error]

ReceiveResponse(status, ok, data, error) ==
  [status |-> status, ok |-> ok, data |-> data, expiry |-> NoExpiry, error |-> error]

\* a handler that has written its response and returned: its locals are gone,
\* what stays is the response and, as history, the code ID and what the store
\* call found
Return(f, resp) ==
  [IdleFrame EXCEPT !.pc = "done", !.op = f.op, !.id = f.id, !.cause = f.cause,
                    !.resp = resp]

\* handleSend, "Determine TTL": the TTL passed to Put for a request's ttl
SendTTL(reqTTL) ==
  IF reqTTL > 0
  THEN LET requested == Wrap(reqTTL * Second)
       IN IF requested < MaxTTL THEN requested ELSE MaxTTL
  ELSE MaxTTL

\* why a body does not decode: it is longer than the limit, or it is not JSON
DecodeCause(body) == IF body.size > MaxSize THEN "toolarge" ELSE "malformed"

\* handleSend up to the call of Put: decode, validate, determine the TTL
handleSendBegin(p, body) ==
  /\ handler[p].pc \in {"idle", "done"}
  /\ reqs < MaxReqs
  /\ reqs' = reqs + 1
  /\ IF ~DecodeOK(body)
     THEN handler' = [handler EXCEPT ![p] =
            Return([IdleFrame EXCEPT !.op = "send", !.cause = DecodeCause(body)],
                   SendResponse(StatusBadRequest, FALSE, NoExpiry, "invalid request body"))]
     ELSE IF body.code_id = "" \/ body.data = EmptyStr
     THEN handler' = [handler EXCEPT ![p] =
            Return([IdleFrame EXCEPT !.op = "send", !.cause = "missing"],
                   SendResponse(StatusBadRequest, FALSE, NoExpiry, "code_id and data are required"))]
     ELSE handler' = [handler EXCEPT ![p] =
            [IdleFrame EXCEPT !.pc = "putLock", !.op = "send", !.req = body,
               !.id = body.code_id, !.ttl = SendTTL(body.ttl)]]
  /\ UNCHANGED <<blobs, mu, now, sweeper, ins>>

\* the goroutines that hold the read lock of s.mu: those inside Count
Readers == {q \in Handlers : handler[q].pc = "countCS"}

\* s.mu.Lock() returns when no goroutine holds the lock, to write or to read
CanLock == mu = None /\ Readers = {}

\* an Unlock written at the end of the function: an early return skips it
DeferUnlock_AtEnd(holder, early) == IF early THEN holder ELSE None

\* defer s.mu.Unlock(): the lock is free after every return, early or not
DeferUnlock(holder, early) == None

\* Store.Put: s.mu.Lock()
PutLock(p) ==
  /\ handler[p].pc = "putLock"
  /\ CanLock
  /\ mu' = p
  /\ handler' = [handler EXCEPT ![p].pc = "putCS"]
  /\ UNCHANGED <<blobs, now, sweeper, reqs, ins, cliVars>>

\* what Put finds under the code ID
PutCause(id) ==
  IF id \notin DOMAIN blobs THEN "absent"
  ELSE IF now - blobs[id].CreatedAt > blobs[id].TTL THEN "expired" ELSE "live"

\* Store.Put: the body under the lock and the deferred s.mu.Unlock()
PutBody(p) ==
  /\ handler[p].pc = "putCS"
  /\ LET f == handler[p]
         r == Put(blobs, f.id, Bytes(f.req.data), f.ttl, now)
     IN /\ blobs' = r.blobs
        /\ handler' = [handler EXCEPT ![p] =
             [f EXCEPT !.pc = "sendWrite", !.ok = r.ok, !.cause = PutCause(f.id),
                       !.seq = IF r.ok THEN ins[f.id].n + 1 ELSE 0]]
        /\ ins' = IF r.ok
                  THEN [ins EXCEPT ![f.id] =
                          [@ EXCEPT !.n = @ + 1, !.data = Bytes(f.req.data), !.got = 0]]
                  ELSE ins
  /\ mu' = DeferUnlock(p, handler[p].id \in DOMAIN blobs)
  /\ UNCHANGED <<now, sweeper, reqs, cliVars>>

\* a handleSend that answers a rejected Put like a malformed request
PutResponse_BadRequest(ok, t, ttl) ==
  IF ~ok
  THEN SendResponse(StatusBadRequest, FALSE, NoExpiry, "invalid request body")
  ELSE SendResponse(StatusCreated, TRUE, FormatRFC3339(t + ttl), "")

\* handleSend, the response after Put returned ok at time t
PutResponse(ok, t, ttl) ==
  IF ~ok
  THEN SendResponse(StatusConflict, FALSE, NoExpiry, "code ID already exists, try again")
  ELSE SendResponse(StatusCreated, TRUE, FormatRFC3339(t + ttl), "")

\* handleSend after Put returned: 409, or the expiry and 201
handleSendWrite(p) ==
  /\ handler[p].pc = "sendWrite"
  /\ handler' = [handler EXCEPT ![p] =
       Return(@, PutResponse(handler[p].ok, now, handler[p].ttl))]
  /\ UNCHANGED <<blobs, mu, now, sweeper, reqs, ins, cliVars>>

\* the entry under id, as the number of its insertion (0: no entry in the map)
Present(id) == IF id \in DOMAIN blobs THEN ins[id].n ELSE 0

\* handleReceive up to the call of GetAndDelete
handleReceiveBegin(p, id) ==
  /\ handler[p].pc \in {"idle", "done"}
  /\ reqs < MaxReqs
  /\ reqs' = reqs + 1
  /\ IF id = ""
     THEN handler' = [handler EXCEPT ![p] =
            [IdleFrame EXCEPT !.pc = "done", !.op = "receive",
               !.resp = ReceiveResponse(StatusBadRequest, FALSE, EmptyStr, "missing code ID")]]
     ELSE handler' = [handler EXCEPT ![p] =
            [IdleFrame EXCEPT !.pc = "getLock", !.op = "receive", !.id = id,
               !.inv = Present(id)]]
  /\ UNCHANGED <<blobs, mu, now, sweeper, ins>>

\* Store.GetAndDelete: s.mu.Lock()
GetLock(p) ==
  /\ handler[p].pc = "getLock"
  /\ CanLock
  /\ mu' = p
  /\ handler' = [handler EXCEPT ![p].pc = "getCS"]
  /\ UNCHANGED <<blobs, now, sweeper, reqs, ins, cliVars>>

\* what GetAndDelete finds under the code ID
GetCause(id) ==
  IF id \in DOMAIN blobs
  THEN IF now - blobs[id].CreatedAt > blobs[id].TTL THEN "expired" ELSE "live"
  ELSE IF ins[id].n = 0 THEN "never"
  ELSE IF ins[id].got > 0 THEN "consumed" ELSE "swept"

\* Store.GetAndDelete: the body under the lock and the deferred s.mu.Unlock()
GetBody(p) ==
  /\ handler[p].pc = "getCS"
  /\ LET f == handler[p]
         r == GetAndDelete(blobs, f.id, now)
         s == ins[f.id].n
     IN /\ blobs' = r.blobs
        /\ handler' = [handler EXCEPT ![p] =
             [f EXCEPT !.pc = "receiveWrite", !.data = r.data, !.cause = GetCause(f.id),
                       !.fin = s, !.seq = IF r.data # Nil THEN s ELSE 0]]
        /\ ins' = [ins EXCEPT
                     ![f.id].got = IF r.data # Nil THEN @ + 1 ELSE @,
                     ![f.id].gone = IF f.id \in DOMAIN blobs THEN @ + 1 ELSE @]
  /\ mu' = DeferUnlock(p, handler[p].id \notin DOMAIN blobs
                          \/ GetExpired(blobs[handler[p].id], now))
  /\ UNCHANGED <<now, sweeper, reqs, cliVars>>

\* handleReceive after GetAndDelete returned: 404, or 200 with the data
handleReceiveWrite(p) ==
  /\ handler[p].pc = "receiveWrite"
  /\ handler' = [handler EXCEPT ![p] =
       Return(@, IF handler[p].data = Nil
                 THEN ReceiveResponse(StatusNotFound, FALSE, EmptyStr, "not found or expired")
                 ELSE ReceiveResponse(StatusOK, TRUE, String(handler[p].data), ""))]
  /\ UNCHANGED <<blobs, mu, now, sweeper, reqs, ins, cliVars>>

\* the body of the health response: {"ok": true, "blobs": n}
HealthResponse(n) ==
  [status |-> StatusOK, ok |-> TRUE, data |-> EmptyStr, expiry |-> NoExpiry,
   error |-> "", blobs |-> n]

\* handleHealth up to the call of Count
handleHealthBegin(p) ==
  /\ handler[p].pc \in {"idle", "done"}
  /\ reqs < MaxReqs
  /\ reqs' = reqs + 1
  /\ handler' = [handler EXCEPT ![p] =
       [IdleFrame EXCEPT !.pc = "countLock", !.op = "health"]]
  /\ UNCHANGED <<blobs, mu, now, sweeper, ins>>

\* a Count that reads the map without waiting for the lock
CanRLock_NoLock == TRUE

\* s.mu.RLock() returns when no goroutine holds the lock to write
CanRLock == mu = None

\* Store.Count: s.mu.RLock()
CountRLock(p) ==
  /\ handler[p].pc = "countLock"
  /\ CanRLock
  /\ handler' = [handler EXCEPT ![p].pc = "countCS"]
  /\ UNCHANGED <<blobs, mu, now, sweeper, reqs, ins, cliVars>>

\* Store.Count: len(s.blobs) under the read lock and the deferred s.mu.RUnlock()
CountBody(p) ==
  /\ handler[p].pc = "countCS"
  /\ handler' = [handler EXCEPT ![p].pc = "healthWrite", ![p].count = Count(blobs)]
  /\ UNCHANGED <<blobs, mu, now, sweeper, reqs, ins, cliVars>>

\* handleHealth after Count returned: 200 with the number
handleHealthWrite(p) ==
  /\ handler[p].pc = "healthWrite"
  /\ handler' = [handler EXCEPT ![p] = Return(@, HealthResponse(handler[p].count))]
  /\ UNCHANGED <<blobs, mu, now, sweeper, reqs, ins, cliVars>>

\* StartCleanupLoop: case <-ticker.C takes the tick
SweeperTick ==
  /\ sweeper.pc = "select"
  /\ sweeper.tick
  /\ sweeper' = [sweeper EXCEPT !.pc = "cleanupLock", !.removed = 0, !.tick = FALSE]
  /\ UNCHANGED <<blobs, mu, now, handler, reqs, ins, cliVars>>

\* Store.Cleanup: s.mu.Lock()
CleanupLock ==
  /\ sweeper.pc = "cleanupLock"
  /\ CanLock
  /\ mu' = SweeperId
  /\ sweeper' = [sweeper EXCEPT !.pc = "cleanupCS"]
  /\ UNCHANGED <<blobs, now, handler, reqs, ins, cliVars>>

\* Store.Cleanup: the body under the lock and the deferred s.mu.Unlock()
CleanupBody ==
  /\ sweeper.pc = "cleanupCS"
  /\ LET r == Cleanup(blobs, now)
     IN /\ blobs' = r.blobs
        /\ sweeper' = [sweeper EXCEPT !.pc = "select", !.removed = r.removed]
        /\ ins' = [id \in CodeIDs |->
                    IF id \in DOMAIN blobs /\ id \notin DOMAIN r.blobs
                    THEN [ins[id] EXCEPT !.gone = @ + 1] ELSE ins[id]]
  /\ mu' = DeferUnlock(SweeperId, FALSE)
  /\ UNCHANGED <<now, handler, reqs, cliVars>>

\* the caller of StartCleanupLoop gives the stop signal: close(done)
Stop ==
  /\ ~sweeper.done
  /\ sweeper' = [sweeper EXCEPT !.done = TRUE, !.stopAt = now]
  /\ UNCHANGED <<blobs, mu, now, handler, reqs, ins, cliVars>>

\* a loop that looks at the done channel only when a tick has arrived
DoneReady_OnTick(s) == s.done /\ s.tick

\* select: the case <-done can be taken once the channel is closed
DoneReady(s) == s.done

\* StartCleanupLoop: case <-done returns; the deferred ticker.Stop()
SweeperDone ==
  /\ sweeper.pc = "select"
  /\ DoneReady(sweeper)
  /\ sweeper' = [sweeper EXCEPT !.pc = "returned", !.tick = FALSE]
  /\ UNCHANGED <<blobs, mu, now, handler, reqs, ins, cliVars>>

\* the ticker of StartCleanupLoop has a tick ready at every whole interval
TickerFires(t) == (t \div Second) % CleanupSeconds = 0

\* time passes: the clock is read at whole seconds; a tick that the sweeper
\* has not taken yet stays in the ticker's channel; a ticker that was
\* stopped sends no more ticks
Tick ==
  /\ now < MaxTime * Second
  /\ now' = now + Second
  /\ sweeper' = [sweeper EXCEPT
                    !.tick = @ \/ (sweeper.pc # "returned" /\ TickerFires(now'))]
  /\ UNCHANGED <<blobs, mu, handler, reqs, ins, cliVars>>

\* the goroutine net/http starts for a new connection: the goroutines are
\* interchangeable, so a connection takes the lowest one that is not running
\* a handler and whose response has been read
Free(p) ==
  /\ handler[p].pc \in {"idle", "done"}
  /\ \A c \in DOMAIN cli : cli[c].pc = "await" => cli[c].conn # p
Serve(p) == Free(p) /\ \A q \in Handlers : Free(q) => p <= q

\* a request from a client that is not one of the commands
RawSend(p, body) == Serve(p) /\ handleSendBegin(p, body) /\ UNCHANGED cliVars
RawReceive(p, id) == Serve(p) /\ handleReceiveBegin(p, id) /\ UNCHANGED cliVars
RawHealth(p) == Serve(p) /\ handleHealthBegin(p) /\ UNCHANGED cliVars

Next ==
  \/ \E p \in Handlers, body \in SendBodies : RawSend(p, body)
  \/ \E p \in Handlers : PutLock(p)
  \/ \E p \in Handlers : PutBody(p)
  \/ \E p \in Handlers : handleSendWrite(p)
  \/ \E p \in Handlers, id \in CodeIDs : RawReceive(p, id)
  \/ \E p \in Handlers : GetLock(p)
  \/ \E p \in Handlers : GetBody(p)
  \/ \E p \in Handlers : handleReceiveWrite(p)
  \/ SweeperTick
  \/ CleanupLock
  \/ CleanupBody
  \/ Tick

Spec == Init /\ [][Next]_vars

TypeOK ==
  /\ DOMAIN blobs \subseteq CodeIDs
  /\ mu \in 0..SweeperId
  /\ now \in 0..(MaxTime * Second)
  /\ reqs \in 0..MaxReqs
  /\ \A id \in CodeIDs : ins[id].n \in 0..MaxReqs

\* ------------------------------------------------- the code and the cipher
PassphraseWords == 4
hkdfSalt == "git-share-v1"
hkdfInfo == "encryption-key"

\* a string of the code scheme is the list of its fields between the "-"
\* separators; the words and the passphrases that wordlist.Pick draws here
Words == {"acid", "acme"}
Passphrases == {[i \in 1..PassphraseWords |-> w] : w \in Words}

\* a GenerateCode whose code leaves the code ID out
GenerateCode_NoID(codeID, passphrase) ==
  [code |-> passphrase, codeID |-> codeID, passphrase |-> passphrase]

\* GenerateCode: code = codeID + CodeSep + passphrase
GenerateCode(codeID, passphrase) ==
  [code |-> <<codeID>> \o passphrase, codeID |-> codeID, passphrase |-> passphrase]

\* a ParseCode that does not count the words
ParseCode_AnyWords(code) ==
  IF Len(code) < 2 \/ code[1] = "" \/ Tail(code) = <<"">>
  THEN [codeID |-> "", passphrase |-> NoWords,
        err |-> "invalid code format: expected <codeId>-<word1>-<word2>-<word3>-<word4>"]
  ELSE [codeID |-> code[1], passphrase |-> Tail(code), err |-> ""]

\* a ParseCode that also refuses a passphrase with an empty word
ParseCode_NoEmptyWord(code) ==
  IF Len(code) < 2 \/ code[1] = "" \/ Tail(code) = <<"">>
  THEN [codeID |-> "", passphrase |-> NoWords,
        err |-> "invalid code format: expected <codeId>-<word1>-<word2>-<word3>-<word4>"]
  ELSE IF Len(Tail(code)) # PassphraseWords \/ \E i \in 2..Len(code) : code[i] = ""
  THEN [codeID |-> "", passphrase |-> NoWords,
        err |-> "invalid code format: passphrase should have 4 words"]
  ELSE [codeID |-> code[1], passphrase |-> Tail(code), err |-> ""]

\* ParseCode: split at the first separator, then count the words
ParseCode(code) ==
  IF Len(code) < 2 \/ code[1] = "" \/ Tail(code) = <<"">>
  THEN [codeID |-> "", passphrase |-> NoWords,
        err |-> "invalid code format: expected <codeId>-<word1>-<word2>-<word3>-<word4>"]
  ELSE IF Len(Tail(code)) # PassphraseWords
  THEN [codeID |-> "", passphrase |-> NoWords,
        err |-> "invalid code format: passphrase should have 4 words"]
  ELSE [codeID |-> code[1], passphrase |-> Tail(code), err |-> ""]

\* DeriveKey: HKDF-SHA256 of the passphrase with the fixed salt and info
DeriveKey(passphrase) == <<"key", passphrase, hkdfSalt, hkdfInfo>>

\* an Encrypt that seals under a key made from the nonce
Encrypt_NonceKey(plaintext, key, nonce) == <<"aead", nonce, <<"key", nonce>>, plaintext>>

\* an Encrypt that returns the plaintext as it is
Encrypt_Plain(plaintext, key, nonce) == plaintext

\* Encrypt: nonce || Seal(plaintext) under the key, for the nonce drawn
Encrypt(plaintext, key, nonce) == <<"aead", nonce, key, plaintext>>

\* sizes of XChaCha20-Poly1305: aead.NonceSize() and the tag Seal appends
NonceSize == 24
Overhead == 16

\* ciphertext[:n] for n below the length, and a ciphertext with a byte changed
Truncate(ciphertext, n) == <<"cut", ciphertext, n>>
Corrupt(ciphertext) == <<"flip", ciphertext>>

\* len(b) of a byte slice; a patch of the model is 40 bytes unless it is empty
RECURSIVE ByteLen(_)
ByteLen(b) ==
  CASE b[1] = "aead" -> NonceSize + ByteLen(b[4]) + Overhead
    [] b[1] = "cut" -> b[3]
    [] b[1] = "flip" -> ByteLen(b[2])
    [] b[1] = "patch" -> IF b[2] = "" THEN 0 ELSE 40
    [] OTHER -> 0

\* a Decrypt that opens a box without comparing the key
Decrypt_NoAuth(ciphertext, key) ==
  IF ByteLen(ciphertext) < NonceSize
  THEN [patch |-> NoBytes, err |-> "ciphertext too short"]
  ELSE IF ciphertext[1] # "aead"
  THEN [patch |-> NoBytes, err |-> "decryption failed (wrong passphrase?)"]
  ELSE [patch |-> ciphertext[4], err |-> ""]

\* Decrypt: too short for a nonce, or Open under the key, which fails unless
\* the bytes are a box sealed with that key
Decrypt(ciphertext, key) ==
  IF ByteLen(ciphertext) < NonceSize
  THEN [patch |-> NoBytes, err |-> "ciphertext too short"]
  ELSE IF ciphertext[1] # "aead" \/ ciphertext[3] # key
  THEN [patch |-> NoBytes, err |-> "decryption failed (wrong passphrase?)"]
  ELSE [patch |-> ciphertext[4], err |-> ""]

\* base64.StdEncoding: EncodeToString and DecodeString
EncodeToString(b) == <<"b64", b>>

\* a DecodeString that hands back the bytes of the text undecoded
DecodeString_Raw(s) == [bytes |-> s, err |-> ""]

DecodeString(s) ==
  IF s[1] = "b64" THEN [bytes |-> s[2], err |-> ""]
  ELSE [bytes |-> NoBytes, err |-> "decoding data"]

\* time.ParseDuration of the --ttl flag: the duration in ticks, or -1
TTLStrs == {"1s", "soon"}
ParseDuration(ttlStr) == IF ttlStr = "1s" THEN Second ELSE -1

\* int(ttl.Seconds())
Seconds(d) == d \div Second

\* strings.Join(args, "-") of runReceive
RECURSIVE Join(_)
Join(args) == IF args = <<>> THEN <<>> ELSE Head(args) \o Join(Tail(args))

\* ------------------------------------------------------- send and receive
\* what the git helpers hand to send: the patch of the working tree
Patches == {<<"patch", "p1">>}
\* the passphrase that GenerateCode draws for the sender
SentPassphrase == [i \in 1..PassphraseWords |-> "acid"]
Nonces == {"n1"}

\* the arguments a receiver is started with: a code as one argument, the
\* code ID and the passphrase as two, a code without passphrase
ReceiveArgs ==
  {<<GenerateCode("a", w).code>> : w \in Passphrases}
  \cup {<<GenerateCode("b", SentPassphrase).code>>, <<<<"a">>, SentPassphrase>>, <<<<"a">>>>}

\* a command that returned: its error ("" for nil) and what it printed
Exit(f, err, stdout) == [f EXCEPT !.pc = "exit", !.err = err, !.stdout = stdout]

\* client.Send: the request body it marshals
SendRequest(codeID, data, ttlSeconds) ==
  [kind |-> "json", size |-> 1, code_id |-> codeID, data |-> data, ttl |-> ttlSeconds]

\* the request as it travels to the relay
PostMessage(req) ==
  [method |-> "POST", code_id |-> req.code_id, data |-> req.data, ttl |-> req.ttl]
GetMessage(codeID) ==
  [method |-> "GET", code_id |-> codeID, data |-> EmptyStr, ttl |-> 0]


\* runSendWithDeps, steps 1 to 5 and the encoding of step 6
runSendPrepare(c, repoOK, isCommit, patchOK, patch, codeID, passphrase, nonce, ttlStr) ==
  /\ cli[c].pc = "start"
  /\ LET f == cli[c]
         g == GenerateCode(codeID, passphrase)
         key == DeriveKey(g.passphrase)
         encrypted == Encrypt(patch, key, nonce)
         ttl == ParseDuration(ttlStr)
         encoded == EncodeToString(encrypted)
         collecting == <<"Collecting changes...">>
         found == collecting \o <<"Found bytes of changes">>
     IN cli' = [cli EXCEPT ![c] =
          IF ~repoOK THEN Exit(f, "not a git repository", <<>>)
          ELSE IF ~patchOK THEN Exit([f EXCEPT !.stderr = collecting], "no changes", <<>>)
          ELSE IF ttl < 0 THEN Exit([f EXCEPT !.stderr = found], "invalid TTL", <<>>)
          ELSE [f EXCEPT !.pc = "post", !.isCommit = isCommit, !.code = g.code,
                         !.codeID = g.codeID, !.passphrase = g.passphrase,
                         !.patch = patch,
                         !.stderr = found \o <<"Encrypting and uploading...">>,
                         !.req = SendRequest(g.codeID, encoded, Seconds(ttl))]]
  /\ UNCHANGED <<blobs, mu, now, handler, sweeper, reqs, ins, wire>>

\* client.Send: the POST to /api/send reaches handler p
clientSendPost(c, p) ==
  /\ cli[c].pc = "post"
  /\ Serve(p)
  /\ handleSendBegin(p, cli[c].req)
  /\ cli' = [cli EXCEPT ![c].pc = "await", ![c].conn = p]
  /\ wire' = wire \cup {PostMessage(cli[c].req)}

\* a send that answers a failed upload by starting over with a new code
UploadFailed_Retry(f) == [f EXCEPT !.pc = "start"]

\* runSendWithDeps when Send returned an error: return "upload failed: ..."
UploadFailed(f) == Exit(f, "upload failed: server error", <<>>)

\* a step 7 that prints the --commit command for every kind of send
ReceiveCommands_Always(code, isCommit) ==
  <<<<"git-share receive", code>>, <<"git-share receive", code, "--commit">>>>

\* runSendWithDeps, step 7: what is printed on stdout, what on stderr
ReceiveCommands(code, isCommit) ==
  IF isCommit
  THEN <<<<"git-share receive", code>>, <<"git-share receive", code, "--commit">>>>
  ELSE <<<<"git-share receive", code>>>>

ShareLines(isCommit) ==
  <<"Encrypted and uploaded.", "Share this with the receiver:">>
    \o (IF isCommit THEN <<"OR to receive as a commit instead of a patch:">> ELSE <<>>)
    \o <<"Expires: | One-time use only">>

\* client.Send: the response; runSendWithDeps, step 7
runSendFinish(c) ==
  /\ c \in Senders
  /\ cli[c].pc = "await"
  /\ handler[cli[c].conn].pc = "done"
  /\ LET f == cli[c]
         resp == handler[f.conn].resp
     IN cli' = [cli EXCEPT ![c] =
          IF ~resp.ok
          THEN UploadFailed([f EXCEPT !.conn = None])
          ELSE [Exit([f EXCEPT !.conn = None], "", ReceiveCommands(f.code, f.isCommit))
                  EXCEPT !.expiry = resp.expiry,
                         !.stderr = @ \o ShareLines(f.isCommit)]]
  /\ UNCHANGED <<blobs, mu, now, handler, sweeper, reqs, ins, wire>>

\* a runReceive that looks for the repository before it parses the code
runReceivePrepare_RepoFirst(c, args, repoOK) ==
  /\ cli[c].pc = "start"
  /\ LET f == cli[c]
         code == Join(args)
         r == ParseCode(code)
     IN cli' = [cli EXCEPT ![c] =
          IF ~repoOK THEN Exit([f EXCEPT !.code = code], "not a git repository", <<>>)
          ELSE IF r.err # "" THEN Exit([f EXCEPT !.code = code], r.err, <<>>)
          ELSE [f EXCEPT !.pc = "get", !.code = code, !.codeID = r.codeID,
                         !.passphrase = r.passphrase,
                         !.stderr = <<"Downloading patch...">>]]
  /\ UNCHANGED <<blobs, mu, now, handler, sweeper, reqs, ins, wire>>

\* runReceive, steps 1 and 2
runReceivePrepare(c, args, repoOK) ==
  /\ cli[c].pc = "start"
  /\ LET f == cli[c]
         code == Join(args)
         r == ParseCode(code)
     IN cli' = [cli EXCEPT ![c] =
          IF r.err # "" THEN Exit([f EXCEPT !.code = code], r.err, <<>>)
          ELSE IF ~repoOK THEN Exit([f EXCEPT !.code = code], "not a git repository", <<>>)
          ELSE [f EXCEPT !.pc = "get", !.code = code, !.codeID = r.codeID,
                         !.passphrase = r.passphrase,
                         !.stderr = <<"Downloading patch...">>]]
  /\ UNCHANGED <<blobs, mu, now, handler, sweeper, reqs, ins, wire>>

\* client.Receive: the GET of /api/receive/<codeID> reaches handler p
clientReceiveGet(c, p) ==
  /\ cli[c].pc = "get"
  /\ Serve(p)
  /\ handleReceiveBegin(p, cli[c].codeID)
  /\ cli' = [cli EXCEPT ![c].pc = "await", ![c].conn = p]
  /\ wire' = wire \cup {GetMessage(cli[c].codeID)}

\* client.Receive: the response; runReceive, steps 4 to 7
runReceiveFinish(c, applyOK) ==
  /\ c \in Receivers
  /\ cli[c].pc = "await"
  /\ handler[cli[c].conn].pc = "done"
  /\ LET f == [cli[c] EXCEPT !.conn = None]
         resp == handler[cli[c].conn].resp
         dec == DecodeString(resp.data)
         key == DeriveKey(f.passphrase)
         d == Decrypt(dec.bytes, key)
     IN cli' = [cli EXCEPT ![c] =
          IF ~resp.ok
          THEN IF resp.status = StatusNotFound
               THEN Exit(f, "patch not found", <<>>)
               ELSE Exit(f, "server error", <<>>)
          ELSE IF dec.err # "" THEN Exit(f, dec.err, <<>>)
          ELSE IF d.err # ""
          THEN [Exit(f, d.err, <<>>) EXCEPT !.stderr = @ \o <<"Decrypting...">>]
          ELSE IF ~applyOK
          THEN [Exit(f, "applying patch", <<>>) EXCEPT
                  !.patch = d.patch,
                  !.stderr = @ \o <<"Decrypting...", "Applying patch...">>]
          ELSE [Exit(f, "", <<>>) EXCEPT
                  !.patch = d.patch,
                  !.stderr = @ \o <<"Decrypting...", "Applying patch...",
                                    "Patch applied successfully.">>]]
  /\ UNCHANGED <<blobs, mu, now, handler, sweeper, reqs, ins, wire>>

\* the relay's own steps, whoever sent the request
RelayStep ==
  \/ \E p \in Handlers : PutLock(p)
  \/ \E p \in Handlers : PutBody(p)
  \/ \E p \in Handlers : handleSendWrite(p)
  \/ \E p \in Handlers : GetLock(p)
  \/ \E p \in Handlers : GetBody(p)
  \/ \E p \in Handlers : handleReceiveWrite(p)
  \/ SweeperTick
  \/ CleanupLock
  \/ CleanupBody
  \/ Tick

NextCLI ==
  \/ \E c \in Senders, repoOK, isCommit, patchOK \in BOOLEAN, patch \in Patches,
        codeID \in {"a"}, passphrase \in {SentPassphrase}, nonce \in Nonces,
        ttlStr \in TTLStrs :
       runSendPrepare(c, repoOK, isCommit, patchOK, patch, codeID, passphrase, nonce, ttlStr)
  \/ \E c \in Senders, p \in Handlers : clientSendPost(c, p)
  \/ \E c \in Senders : runSendFinish(c)
  \/ \E c \in Receivers, args \in ReceiveArgs, repoOK \in BOOLEAN :
       runReceivePrepare(c, args, repoOK)
  \/ \E c \in Receivers, p \in Handlers : clientReceiveGet(c, p)
  \/ \E c \in Receivers, applyOK \in BOOLEAN : runReceiveFinish(c, applyOK)
  \/ RelayStep

SpecCLI == InitCLI /\ [][NextCLI]_vars

\* ---------------------------------------------------------------- claims
\* a frame whose call of Put, or of GetAndDelete, has returned and whose
\* handler has not written the response yet
PutReturned(f) == f.op = "send" /\ f.pc = "sendWrite"
GetReturned(f) == f.op = "receive" /\ f.pc = "receiveWrite"

\* the step in which handler p runs the body of Put, of GetAndDelete
PutStep(p) == handler[p].pc = "putCS" /\ handler'[p].pc = "sendWrite"
GetStep(p) == handler[p].pc = "getCS" /\ handler'[p].pc = "receiveWrite"
CleanupStep == sweeper.pc = "cleanupCS" /\ sweeper'.pc = "select"

\* C1: one-time use. In every interleaving of Put, GetAndDelete and Cleanup,
\* what one successful Put inserted is returned by at most one GetAndDelete:
\* no insertion is ever returned twice.
C1_OneTimeUse == \A id \in CodeIDs : ins[id].got <= 1

\* an entry was inserted, returned once and is gone; a later call got nothing
C1_Witness ==
  \E p, q \in Handlers :
    /\ p # q
    /\ GetReturned(handler[p]) /\ handler[p].data # Nil
    /\ GetReturned(handler[q]) /\ handler[q].data = Nil
    /\ handler[q].id = handler[p].id
    /\ ins[handler[p].id].got = 1
    /\ handler[p].id \notin DOMAIN blobs

\* C2: of the callers that invoke GetAndDelete concurrently for a code ID whose
\* entry is present at their invocation, with no expiry and no new Put under
\* that code ID before they return, exactly one receives the data and every
\* other one receives nil.
C2_ExactlyOneWinner ==
  /\ \A p \in Handlers :
       LET f == handler[p]
       IN (GetReturned(f) /\ f.inv # 0 /\ f.fin = f.inv /\ f.cause \notin {"expired", "swept"})
          => \/ f.cause = "live" /\ f.data # Nil
             \/ f.cause = "consumed" /\ f.data = Nil
  /\ \A p, q \in Handlers :
       LET f == handler[p]
           g == handler[q]
       IN (p # q /\ GetReturned(f) /\ GetReturned(g) /\ f.id = g.id
           /\ f.inv # 0 /\ f.inv = g.inv /\ f.fin = f.inv /\ g.fin = g.inv)
          => ~(f.data # Nil /\ g.data # Nil)

\* two calls invoked on the same present entry have returned: one with the
\* data, the other with nil
C2_Witness ==
  \E p, q \in Handlers :
    /\ p # q
    /\ GetReturned(handler[p]) /\ GetReturned(handler[q])
    /\ handler[p].id = handler[q].id
    /\ handler[p].inv # 0 /\ handler[q].inv = handler[p].inv
    /\ handler[p].fin = handler[p].inv /\ handler[q].fin = handler[q].inv
    /\ handler[p].data # Nil /\ handler[q].data = Nil
    /\ handler[q].cause = "consumed"

\* C3: GetAndDelete never returns expired data. A call that finds an entry
\* whose age exceeds its TTL returns nil and deletes the entry; no Cleanup is
\* needed for that.
C3_NoExpiredData ==
  [][\A p \in Handlers :
       LET id == handler[p].id
       IN (GetStep(p) /\ id \in DOMAIN blobs /\ now - blobs[id].CreatedAt > blobs[id].TTL)
          => (handler'[p].data = Nil /\ id \notin DOMAIN blobs')]_vars

\* a call found an expired entry still in the map (no sweep had removed it),
\* returned nil and left the map empty
C3_Witness ==
  \E p \in Handlers :
    /\ GetReturned(handler[p]) /\ handler[p].cause = "expired"
    /\ handler[p].data = Nil
    /\ handler[p].id \notin DOMAIN blobs

\* C4: Put on a code ID that is present returns false and changes nothing
\* (data, creation time and TTL stay those of the first Put), so the data a
\* GetAndDelete returns is that of the successful Put, never that of the
\* rejected one.
C4_DuplicatePut ==
  [][\A p \in Handlers :
       LET id == handler[p].id
       IN /\ (PutStep(p) /\ id \in DOMAIN blobs)
               => (~handler'[p].ok /\ blobs' = blobs)
          /\ (GetStep(p) /\ handler'[p].data # Nil)
               => handler'[p].data = ins[id].data]_vars

\* a Put of other data was rejected, then the only insertion was returned
C4_Witness ==
  \E p, q \in Handlers :
    /\ p # q
    /\ PutReturned(handler[p]) /\ ~handler[p].ok
    /\ GetReturned(handler[q]) /\ handler[q].id = handler[p].id
    /\ ins[handler[p].id].n = 1
    /\ handler[q].data # Nil
    /\ handler[q].data # Bytes(handler[p].req.data)

\* C5: Put(id, d, ttl) on an absent id returns true and stores d; while the
\* entry is untouched and its TTL has not elapsed the next GetAndDelete(id)
\* returns exactly d and removes the entry, and a GetAndDelete(id) on the
\* absent id returns nil.
C5_PutThenGet ==
  [][\A p \in Handlers :
       LET f == handler[p]
           id == f.id
       IN /\ (PutStep(p) /\ id \notin DOMAIN blobs)
               => /\ handler'[p].ok
                  /\ id \in DOMAIN blobs'
                  /\ blobs'[id] = [Data |-> Bytes(f.req.data), CreatedAt |-> now, TTL |-> f.ttl]
          /\ (GetStep(p) /\ id \in DOMAIN blobs /\ now - blobs[id].CreatedAt <= blobs[id].TTL)
               => /\ handler'[p].data = ins[id].data
                  /\ handler'[p].data # Nil
                  /\ id \notin DOMAIN blobs'
          /\ (GetStep(p) /\ id \notin DOMAIN blobs)
               => (handler'[p].data = Nil /\ blobs' = blobs)]_vars

\* the first GetAndDelete after the Put returned its data; the next one,
\* invoked after that, returned nil
C5_Witness ==
  \E p, q \in Handlers :
    /\ p # q
    /\ GetReturned(handler[p]) /\ handler[p].cause = "live"
    /\ handler[p].data = ins[handler[p].id].data
    /\ GetReturned(handler[q]) /\ handler[q].id = handler[p].id
    /\ handler[q].inv = 0 /\ handler[q].cause = "consumed" /\ handler[q].data = Nil
    /\ ins[handler[p].id].n = 1

\* C6, as claimed: once a blob has been delivered or its TTL has elapsed, a Put
\* under its code ID inserts the new blob and returns true.
C6_PutAfterExpiry ==
  \A p \in Handlers :
    (PutReturned(handler[p]) /\ handler[p].cause \in {"absent", "expired"})
      => handler[p].ok

\* C6, amended: a code ID is absent again once its blob has been delivered or
\* its expired entry has been removed by GetAndDelete or Cleanup; Put returns
\* true exactly when the code ID is absent from the map, so an expired entry
\* that has not been removed yet still makes Put return false.
C6_StateMachine ==
  [][/\ \A p \in Handlers :
          LET id == handler[p].id
          IN /\ PutStep(p) => /\ handler'[p].ok <=> (id \notin DOMAIN blobs)
                              /\ id \in DOMAIN blobs'
             /\ GetStep(p) => id \notin DOMAIN blobs'
     /\ CleanupStep =>
          \A id \in DOMAIN blobs :
             (now - blobs[id].CreatedAt > blobs[id].TTL) => id \notin DOMAIN blobs'
    ]_vars

\* a second Put under the same code ID succeeded after the first entry was
\* delivered or removed
C6_Witness ==
  \E p \in Handlers :
    /\ PutReturned(handler[p]) /\ handler[p].ok
    /\ handler[p].seq = 2

\* C7: Cleanup removes exactly the entries whose age exceeds their TTL at the
\* time of the call, leaves every other entry as it was and returns the
\* number of entries removed.
C7_CleanupExact ==
  [][CleanupStep =>
       LET expired == {id \in DOMAIN blobs : now - blobs[id].CreatedAt > blobs[id].TTL}
       IN /\ DOMAIN blobs' = (DOMAIN blobs) \ expired
          /\ \A id \in DOMAIN blobs' : blobs'[id] = blobs[id]
          /\ sweeper'.removed = Cardinality(expired)]_vars

\* a sweep removed one expired entry and left one live entry
C7_Witness ==
  /\ sweeper.pc = "select" /\ sweeper.removed = 1
  /\ Count(blobs) = 1
  /\ \A id \in DOMAIN blobs : now - blobs[id].CreatedAt <= blobs[id].TTL

\* C9: the receive handler answers a missing blob in one way: whether the code
\* ID never existed, was already consumed or had expired, the status is 404
\* and the body is the same.
C9_UniformNotFound ==
  /\ \A p \in Handlers :
       LET f == handler[p]
       IN (f.op = "receive" /\ f.pc = "done"
           /\ f.cause \in {"never", "consumed", "expired", "swept"})
          => f.resp.status = StatusNotFound
  /\ \A p, q \in Handlers :
       LET f == handler[p]
           g == handler[q]
       IN (f.op = "receive" /\ f.pc = "done" /\ g.op = "receive" /\ g.pc = "done"
           /\ f.cause \in {"never", "consumed", "expired", "swept"}
           /\ g.cause \in {"never", "consumed", "expired", "swept"})
          => f.resp = g.resp

\* two requests were answered, one for a code ID that never existed and one
\* for an expired blob
C9_Witness ==
  \E p, q \in Handlers :
    /\ handler[p].op = "receive" /\ handler[p].pc = "done" /\ handler[p].cause = "never"
    /\ handler[q].op = "receive" /\ handler[q].pc = "done" /\ handler[q].cause = "expired"
    /\ handler[p].resp = handler[q].resp

\* what the relay can read from the text of a data field without a key: the
\* text, the bytes it encodes and, of a sealed box, nothing but the nonce
Learn(d) ==
  {d} \cup (IF d[1] # "b64" THEN {}
            ELSE IF d[2][1] = "aead" THEN {<<"nonce", d[2][2]>>} ELSE {d[2]})

\* the data field is empty or the base64 text of a sealed box
Ciphertext(d) == d = EmptyStr \/ (d[1] = "b64" /\ d[2][1] = "aead")

\* the secrets of the commands that got as far as holding a passphrase: the
\* passphrase, the key derived from it, the plaintext patch
Secrets ==
  UNION {{cli[c].passphrase, DeriveKey(cli[c].passphrase), cli[c].patch} :
           c \in {x \in Clients : cli[x].passphrase # NoWords}}

\* C8: zero knowledge. Every request transmitted to the relay and every value
\* in the relay's store consists only of a code ID, the base64 text of a
\* ciphertext and a TTL; no passphrase, derived key or plaintext patch can be
\* read from any request or from the store.
C8_ZeroKnowledge ==
  /\ \A m \in wire :
       /\ \E c \in Clients : m.code_id = cli[c].codeID
       /\ Ciphertext(m.data)
       /\ m.ttl \in MinInt..MaxInt
       /\ Learn(m.data) \cap Secrets = {}
  /\ \A id \in DOMAIN blobs :
       /\ \E c \in Senders : id = cli[c].codeID
       /\ Ciphertext(String(blobs[id].Data)) /\ String(blobs[id].Data) # EmptyStr
       /\ Learn(String(blobs[id].Data)) \cap Secrets = {}

\* the sender's upload is in the store while a receiver has asked the relay
\* for a code and holds a passphrase of its own
C8_Witness ==
  /\ \E id \in DOMAIN blobs, c \in Senders :
       /\ cli[c].pc = "exit" /\ cli[c].err = ""
       /\ blobs[id].Data = Bytes(cli[c].req.data)
  /\ \E c \in Receivers :
       /\ cli[c].pc = "exit"
       /\ GetMessage(cli[c].codeID) \in wire


\* ------------------------------------------- the TTL of a send request
\* every ttl a JSON body can carry in an int
TTLBodies ==
  [kind : {"json"}, size : {1}, code_id : {"a"}, data : {Str("d1")}, ttl : MinInt..MaxInt]

NextTTL ==
  \/ \E body \in TTLBodies : RawSend(1, body)
  \/ PutLock(1)
  \/ PutBody(1)
  \/ handleSendWrite(1)
  \/ RawReceive(1, "a")
  \/ GetLock(1)
  \/ GetBody(1)
  \/ handleReceiveWrite(1)
  \/ Tick

SpecTTL == Init /\ [][NextTTL]_vars

Min(x, y) == IF x <= y THEN x ELSE y

\* C10: the TTL of the blob a send request stores is min(requested TTL,
\* MaxTTL) for every positive ttl (in seconds) an int can hold, and MaxTTL for
\* ttl = 0.
C10_AppliedTTL ==
  \A p \in Handlers :
    LET f == handler[p]
    IN (PutReturned(f) /\ f.ok /\ f.req.ttl >= 0
        /\ f.id \in DOMAIN blobs /\ ins[f.id].n = f.seq)
       => blobs[f.id].TTL = IF f.req.ttl = 0 THEN MaxTTL
                            ELSE Min(f.req.ttl * Second, MaxTTL)

\* --------------------------------------------- the outcomes of a send request
\* the bodies of send requests, well-formed and not: two payloads under one
\* code ID, a body that is not JSON, a body longer than MaxSize, a body
\* without code_id, a body without data
HTTPBodies ==
  [kind : {"json"}, size : {1}, code_id : {"a"}, data : DataStrings, ttl : ReqTTLs]
  \cup {[kind |-> "text", size |-> 1, code_id |-> "a", data |-> Str("d1"), ttl |-> 1],
        [kind |-> "json", size |-> MaxSize + 1, code_id |-> "a", data |-> Str("d1"), ttl |-> 1],
        [kind |-> "json", size |-> 1, code_id |-> "", data |-> Str("d1"), ttl |-> 1],
        [kind |-> "json", size |-> 1, code_id |-> "a", data |-> EmptyStr, ttl |-> 1]}

NextHTTP ==
  \/ \E body \in HTTPBodies : RawSend(1, body)
  \/ PutLock(1)
  \/ PutBody(1)
  \/ handleSendWrite(1)
  \/ RawReceive(1, "a")
  \/ GetLock(1)
  \/ GetBody(1)
  \/ handleReceiveWrite(1)
  \/ Tick

SpecHTTP == Init /\ [][NextHTTP]_vars

\* the step in which handler p rejects a send request before it calls Put,
\* and the step in which it writes the response after Put returned
SendRejectStep(p) ==
  /\ reqs' = reqs + 1
  /\ handler'[p].op = "send" /\ handler'[p].pc = "done"
SendWriteStep(p) == handler[p].pc = "sendWrite" /\ handler'[p].pc = "done"

\* C11: a send whose code ID is present in the store is answered with 409 and
\* only such a send is; the sends rejected for their body are answered with
\* 400; the rejected Put leaves the map, and so the existing blob, as it was.
C11_Conflict ==
  [][\A p \in Handlers :
       /\ (PutStep(p) /\ handler[p].id \in DOMAIN blobs) => blobs' = blobs
       /\ SendWriteStep(p) =>
            (handler'[p].resp.status = StatusConflict
               <=> handler[p].cause \in {"live", "expired"})
       /\ SendRejectStep(p) =>
            /\ handler'[p].resp.status = StatusBadRequest
            /\ handler'[p].resp.status # StatusConflict]_vars

\* a second send under a present code ID was answered 409 and the blob of the
\* first send is still the stored one
C11_Witness ==
  /\ handler[1].op = "send" /\ handler[1].pc = "done"
  /\ handler[1].cause = "live" /\ handler[1].resp.status = StatusConflict
  /\ "a" \in DOMAIN blobs /\ ins["a"].n = 1 /\ blobs["a"].Data = ins["a"].data

\* C12, as claimed: a send whose body is longer than the maximum size is
\* answered with an outcome other than the 400 of a malformed request.
C12_PayloadTooLarge ==
  \A p \in Handlers :
    (handler[p].op = "send" /\ handler[p].pc = "done" /\ handler[p].cause = "toolarge")
      => handler[p].resp.status # StatusBadRequest

\* C13: a send request that is not answered with 201 leaves the store as it
\* was: the only step of a send request that changes the map is a Put that
\* returns true, and exactly the requests whose Put returned true get 201.
C13_RejectedSendFrame ==
  [][\A p \in Handlers :
       (handler'[p] # handler[p] /\ handler'[p].op = "send") =>
          /\ ~(PutStep(p) /\ handler'[p].ok) => blobs' = blobs
          /\ handler'[p].pc = "done" =>
               (handler'[p].resp.status = StatusCreated
                  <=> (handler[p].pc = "sendWrite" /\ handler[p].ok))]_vars

\* a send without data was answered 400 while the store holds the blob of an
\* earlier send, unchanged
C13_Witness ==
  /\ handler[1].op = "send" /\ handler[1].pc = "done"
  /\ handler[1].cause = "missing" /\ handler[1].resp.status = StatusBadRequest
  /\ "a" \in DOMAIN blobs /\ ins["a"].n = 1 /\ blobs["a"].Data = ins["a"].data

\* C14, as claimed: the expiry a successful send returns is the insertion
\* time of the stored blob plus the TTL applied to it.
C14_ExpiryIsEffective ==
  [][\A p \in Handlers :
       LET id == handler[p].id
       IN (SendWriteStep(p) /\ handler[p].ok
           /\ id \in DOMAIN blobs /\ ins[id].n = handler[p].seq)
          => handler'[p].resp.expiry
               = FormatRFC3339(blobs[id].CreatedAt + blobs[id].TTL)]_vars

\* ------------------------------------------------------------- end to end
\* the step in which a receive command gets its response and finishes
ReceiveFinishStep(c) == cli[c].pc = "await" /\ cli'[c].pc = "exit"

\* sender s has uploaded its patch under the code ID that receiver c asks for
Uploaded(s, c) ==
  /\ cli[s].pc = "exit" /\ cli[s].err = ""
  /\ cli[s].codeID = cli[c].codeID

\* C15: end to end. After send has stored the encrypted patch P under code ID
\* I with passphrase S, the receive with code I-S whose fetch finds the blob,
\* unexpired, recovers exactly P; a receive whose fetch comes after the blob
\* was consumed gets not-found and no patch.
C15_EndToEnd ==
  [][\A c \in Receivers, s \in Senders :
       (ReceiveFinishStep(c) /\ Uploaded(s, c)) =>
          LET h == handler[cli[c].conn]
          IN /\ (h.cause = "live" /\ cli[c].passphrase = cli[s].passphrase)
                  => /\ cli'[c].patch = cli[s].patch
                     /\ cli'[c].err \in {"", "applying patch"}
             /\ h.cause = "consumed"
                  => /\ cli'[c].err = "patch not found"
                     /\ cli'[c].patch = NoBytes]_vars

\* one receive recovered the sender's patch with the sender's code, another
\* receive for the same code ID came later and got not-found
C15_Witness ==
  \E s \in Senders, c, d \in Receivers :
    /\ cli[s].pc = "exit" /\ cli[s].err = ""
    /\ cli[c].pc = "exit" /\ cli[c].err = ""
    /\ cli[c].code = cli[s].code /\ cli[c].patch = cli[s].patch
    /\ cli[d].pc = "exit" /\ cli[d].codeID = cli[s].codeID
    /\ cli[d].err = "patch not found"

\* ------------------------------------------------------------- the cipher
\* Encrypt and Decrypt on their own: a plaintext sealed under the key of one
\* passphrase, handed on intact, with a byte changed or cut short, and opened
\* under the key of a passphrase that is the same or another
Plaintexts == {<<"patch", "">>, <<"patch", "p1">>}
Tampers == {"intact", "corrupt", "empty", "short", "nonce", "cut"}

\* the length a tamper cuts a ciphertext to
CutLength(t, ciphertext) ==
  CASE t = "empty" -> 0
    [] t = "short" -> NonceSize - 1
    [] t = "nonce" -> NonceSize
    [] OTHER -> ByteLen(ciphertext) - 1

InitCrypto ==
  /\ InitRelay /\ wire = {}
  /\ cli \in [pc : {"start"}, plaintext : Plaintexts, sealWith : Passphrases,
              openWith : Passphrases, nonce : {"n1", "n2"}, tamper : Tampers,
              ciphertext : {NoBytes}, out : {[patch |-> NoBytes, err |-> ""]}]

\* ciphertext, err := Encrypt(plaintext, DeriveKey(sealWith))
EncryptCall ==
  /\ cli.pc = "start"
  /\ cli' = [cli EXCEPT !.pc = "sealed",
               !.ciphertext = Encrypt(cli.plaintext, DeriveKey(cli.sealWith), cli.nonce)]
  /\ UNCHANGED <<blobs, mu, now, handler, sweeper, reqs, ins, wire>>

\* the ciphertext on its way: kept, changed or cut
TamperCall ==
  /\ cli.pc = "sealed"
  /\ cli' = [cli EXCEPT !.pc = "handed",
               !.ciphertext = IF cli.tamper = "intact" THEN @
                              ELSE IF cli.tamper = "corrupt" THEN Corrupt(@)
                              ELSE Truncate(@, CutLength(cli.tamper, @))]
  /\ UNCHANGED <<blobs, mu, now, handler, sweeper, reqs, ins, wire>>

\* plaintext, err := Decrypt(ciphertext, DeriveKey(openWith))
DecryptCall ==
  /\ cli.pc = "handed"
  /\ cli' = [cli EXCEPT !.pc = "opened",
               !.out = Decrypt(cli.ciphertext, DeriveKey(cli.openWith))]
  /\ UNCHANGED <<blobs, mu, now, handler, sweeper, reqs, ins, wire>>

NextCrypto == EncryptCall \/ TamperCall \/ DecryptCall

SpecCrypto == InitCrypto /\ [][NextCrypto]_vars

\* C16: for every plaintext P and passphrase S,
\* Decrypt(Encrypt(P, DeriveKey(S)), DeriveKey(S)) succeeds and returns P.
C16_RoundTrip ==
  (cli.pc = "opened" /\ cli.tamper = "intact" /\ cli.openWith = cli.sealWith)
    => (cli.out.err = "" /\ cli.out.patch = cli.plaintext)

\* an untouched ciphertext was opened with the passphrase it was sealed with
C16_Witness ==
  /\ cli.pc = "opened" /\ cli.tamper = "intact" /\ cli.openWith = cli.sealWith
  /\ cli.out.patch = <<"patch", "p1">>

\* C17: Decrypt under the key of a passphrase other than the one used to
\* encrypt fails every time: it returns an error and no plaintext.
C17_WrongPassphrase ==
  (cli.pc = "opened" /\ cli.openWith # cli.sealWith)
    => (cli.out.err # "" /\ cli.out.patch = NoBytes)

\* an untouched ciphertext was refused under the key of another passphrase
C17_Witness ==
  /\ cli.pc = "opened" /\ cli.tamper = "intact" /\ cli.openWith # cli.sealWith
  /\ cli.out.err # ""

\* C18, as claimed: every failure of Decrypt is the one error of a failed
\* authentication, whether the key is wrong, the data corrupted or the
\* ciphertext cut short, also below the size of the nonce.
C18_OneFailure ==
  (cli.pc = "opened" /\ cli.out.err # "")
    => cli.out.err = "decryption failed (wrong passphrase?)"

\* --------------------------------------------------------- the code scheme
\* GenerateCode and ParseCode on their own. A string is the list of its
\* fields between the separators "-": "" is <<"">>, "id-" is <<"id", "">>.
MaxFields == 6
Fields == {"", "a"}
CodeTexts == UNION {[1..n -> Fields] : n \in 1..MaxFields}

InitCode ==
  /\ InitRelay /\ wire = {}
  /\ cli \in [pc : {"start"}, codeID : CodeIDs, passphrase : Passphrases,
              text : CodeTexts, code : {<<"">>},
              out : {[codeID |-> "", passphrase |-> NoWords, err |-> ""]}]

\* code, codeID, passphrase, err := GenerateCode()
GenerateCall ==
  /\ cli.pc = "start"
  /\ cli' = [cli EXCEPT !.pc = "generated",
               !.code = GenerateCode(cli.codeID, cli.passphrase).code]
  /\ UNCHANGED <<blobs, mu, now, handler, sweeper, reqs, ins, wire>>

\* parsedID, parsedPass, err := ParseCode(code) of the generated code
ParseGenerated ==
  /\ cli.pc = "generated"
  /\ cli' = [cli EXCEPT !.pc = "parsed", !.out = ParseCode(cli.code)]
  /\ UNCHANGED <<blobs, mu, now, handler, sweeper, reqs, ins, wire>>

\* _, _, err := ParseCode(c) of any text
ParseText ==
  /\ cli.pc = "start"
  /\ cli' = [cli EXCEPT !.pc = "parsedText", !.out = ParseCode(cli.text)]
  /\ UNCHANGED <<blobs, mu, now, handler, sweeper, reqs, ins, wire>>

NextCode == GenerateCall \/ ParseGenerated \/ ParseText

SpecCode == InitCode /\ [][NextCode]_vars

\* C19: for every (code, codeID, passphrase) that GenerateCode produces,
\* ParseCode(code) succeeds and returns that codeID and that passphrase.
C19_ParseGenerated ==
  cli.pc = "parsed"
    => (cli.out.err = "" /\ cli.out.codeID = cli.codeID
        /\ cli.out.passphrase = cli.passphrase)

\* a generated code was parsed
C19_Witness ==
  /\ cli.pc = "parsed" /\ cli.codeID = "b"
  /\ cli.code = <<"b", "acme", "acme", "acme", "acme">>
  /\ cli.out.codeID = "b"

\* C20: ParseCode returns an InvalidFormat error, and no codeID and no
\* passphrase, when the code has no separator, when a half around the first
\* separator is empty, or when the passphrase half is not exactly 4 words.
C20_InvalidFormat ==
  LET InvalidFormat ==
        {"invalid code format: expected <codeId>-<word1>-<word2>-<word3>-<word4>",
         "invalid code format: passphrase should have 4 words"}
  IN
  (/\ cli.pc = "parsedText"
   /\ \/ Len(cli.text) = 1
      \/ cli.text[1] = ""
      \/ Tail(cli.text) = <<"">>
      \/ Len(Tail(cli.text)) # PassphraseWords)
    => (cli.out.err \in InvalidFormat /\ cli.out.codeID = ""
        /\ cli.out.passphrase = NoWords)

\* a code with a code ID and a passphrase half of three words was refused
C20_Witness ==
  /\ cli.pc = "parsedText" /\ cli.text = <<"a", "a", "a", "a">>
  /\ cli.out.err = "invalid code format: passphrase should have 4 words"

\* C35: ParseCode succeeds iff the code holds exactly 4 separators and does
\* not begin with one, whatever stands between the separators; on success
\* the codeID is the text before the first separator, the passphrase all the
\* text after it, and codeID, separator and passphrase make up the input.
C35_ParseCode ==
  cli.pc = "parsedText" =>
    LET Separators == Len(cli.text) - 1
        BeginsWithSeparator == cli.text[1] = "" /\ Separators > 0
    IN /\ (cli.out.err = "") = (Separators = 4 /\ ~BeginsWithSeparator)
       /\ cli.out.err = "" =>
            /\ cli.out.codeID = Head(cli.text)
            /\ cli.out.passphrase = Tail(cli.text)
            /\ <<cli.out.codeID>> \o cli.out.passphrase = cli.text

\* the code "a----", a code ID and four empty words, was accepted
C35_Witness ==
  /\ cli.pc = "parsedText" /\ cli.text = <<"a", "", "", "", "">>
  /\ cli.out.err = "" /\ cli.out.codeID = "a"
  /\ cli.out.passphrase = <<"", "", "", "">>

\* ------------------------------------------------- the store and its lock
\* the relay with the health endpoint: sends and fetches under one code ID,
\* health requests, the sweeper and the clock
StoreBodies ==
  [kind : {"json"}, size : {1}, code_id : CodeIDs, data : {Str("d1")}, ttl : ReqTTLs]

NextStore ==
  \/ \E p \in Handlers, body \in StoreBodies : RawSend(p, body)
  \/ \E p \in Handlers : PutLock(p)
  \/ \E p \in Handlers : PutBody(p)
  \/ \E p \in Handlers : handleSendWrite(p)
  \/ \E p \in Handlers : RawReceive(p, "a")
  \/ \E p \in Handlers : GetLock(p)
  \/ \E p \in Handlers : GetBody(p)
  \/ \E p \in Handlers : handleReceiveWrite(p)
  \/ \E p \in Handlers : RawHealth(p)
  \/ \E p \in Handlers : CountRLock(p)
  \/ \E p \in Handlers : CountBody(p)
  \/ \E p \in Handlers : handleHealthWrite(p)
  \/ SweeperTick
  \/ CleanupLock
  \/ CleanupBody
  \/ Tick

SpecStore == Init /\ [][NextStore]_vars

\* C23: Put, GetAndDelete and Cleanup are mutually exclusive (the sweeper is
\* one goroutine, so Cleanup never runs beside itself), and Count never reads
\* the map while one of them is inside its critical section.
C23_MutualExclusion ==
  LET Writers ==
        {p \in Handlers : handler[p].pc \in {"putCS", "getCS"}}
          \cup (IF sweeper.pc = "cleanupCS" THEN {SweeperId} ELSE {})
  IN /\ Cardinality(Writers) <= 1
     /\ Writers # {} => Readers = {}
     /\ Writers = IF mu = None THEN {} ELSE {mu}

\* two health requests read the map together while the sweeper waits to lock
C23_Witness ==
  /\ Readers = {1, 2} /\ sweeper.pc = "cleanupLock"

SendKey(g) == DeriveKey(g.passphrase)

\* a receive that derives the key from the whole code
ReceiveKey_WholeCode(code) == DeriveKey(code)

\* receive: codeID, passphrase := ParseCode(code); key := DeriveKey(passphrase)
ReceiveKey(code) == DeriveKey(ParseCode(code).passphrase)

InitKey ==
  /\ InitRelay /\ wire = {}
  /\ cli \in [pc : {"start"},
              sent : {GenerateCode(id, w) : id \in CodeIDs,
                                            w \in [1..PassphraseWords -> Words]},
              given : {GenerateCode(id, w).code : id \in CodeIDs,
                                                  w \in [1..PassphraseWords -> Words]},
              sendKey : {NoBytes}, receiveKey : {NoBytes}, again : {NoBytes}]

\* the key of the sender
SendDerive ==
  /\ cli.pc = "start"
  /\ cli' = [cli EXCEPT !.pc = "sent", !.sendKey = SendKey(cli.sent)]
  /\ UNCHANGED <<blobs, mu, now, handler, sweeper, reqs, ins, wire>>

\* the key of the receiver
ReceiveDerive ==
  /\ cli.pc = "sent"
  /\ cli' = [cli EXCEPT !.pc = "received", !.receiveKey = ReceiveKey(cli.given)]
  /\ UNCHANGED <<blobs, mu, now, handler, sweeper, reqs, ins, wire>>

\* a second call of DeriveKey with the passphrase of the sender
DeriveAgain ==
  /\ cli.pc = "received"
  /\ cli' = [cli EXCEPT !.pc = "again", !.again = DeriveKey(cli.sent.passphrase)]
  /\ UNCHANGED <<blobs, mu, now, handler, sweeper, reqs, ins, wire>>

NextKey == SendDerive \/ ReceiveDerive \/ DeriveAgain

SpecKey == InitKey /\ [][NextKey]_vars

CodeIDLength == 10

base62Chars ==
  <<"0", "1", "2", "3", "4", "5", "6", "7", "8", "9", "A", "B", "C", "D",
   "E", "F", "G", "H", "I", "J", "K", "L", "M", "N", "O", "P", "Q", "R",
   "S", "T", "U", "V", "W", "X", "Y", "Z", "a", "b", "c", "d", "e", "f",
   "g", "h", "i", "j", "k", "l", "m", "n", "o", "p", "q", "r", "s", "t",
   "u", "v", "w", "x", "y", "z">>

\* the word list in its order (here its first two words)
WordList == <<"acid", "acme">>

\* what rand.Int(rand.Reader, max) returns: the ends of the range 0..max-1
RandInt(max) == {0, max - 1}

\* a generateCodeID that fills all but the last character
generateCodeID_Short(draws) == [i \in 1..(CodeIDLength - 1) |-> base62Chars[draws[i] + 1]]

\* generateCodeID: b[i] = base62Chars[idx] for each of the CodeIDLength draws
generateCodeID(draws) == [i \in 1..CodeIDLength |-> base62Chars[draws[i] + 1]]

\* wordlist.Pick(n, sep): words[i] = Words[idx], joined by the separator
Pick(n, draws) == [i \in 1..n |-> WordList[draws[i] + 1]]

InitGen ==
  /\ InitRelay /\ wire = {}
  /\ cli \in [pc : {"start"},
              idDraws : [1..CodeIDLength -> RandInt(Len(base62Chars))],
              wordDraws : [1..PassphraseWords -> RandInt(Len(WordList))],
              out : {[code |-> NoWords, codeID |-> NoWords, passphrase |-> NoWords]}]

\* code, codeID, passphrase, err := GenerateCode()
GenerateCodeCall ==
  /\ cli.pc = "start"
  /\ cli' = [cli EXCEPT !.pc = "generated",
               !.out = GenerateCode(generateCodeID(cli.idDraws),
                                    Pick(PassphraseWords, cli.wordDraws))]
  /\ UNCHANGED <<blobs, mu, now, handler, sweeper, reqs, ins, wire>>

SpecGen == InitGen /\ [][GenerateCodeCall]_vars

\* C22: GenerateCode returns a codeID of exactly 10 characters of the
\* 62-symbol alphabet, a passphrase of exactly 4 words of the word list joined
\* by "-", and code = codeID + "-" + passphrase.
C22_GeneratedCode ==
  LET Alphabet == {base62Chars[i] : i \in 1..Len(base62Chars)}
  IN
  cli.pc = "generated" =>
    /\ Len(cli.out.codeID) = 10
    /\ \A i \in 1..Len(cli.out.codeID) : cli.out.codeID[i] \in Alphabet
    /\ Cardinality(Alphabet) = 62
    /\ Len(cli.out.passphrase) = 4
    /\ \A i \in 1..Len(cli.out.passphrase) : cli.out.passphrase[i] \in Words
    /\ cli.out.code = <<cli.out.codeID>> \o cli.out.passphrase

\* a code was drawn that uses the first and the last character and word
C22_Witness ==
  /\ cli.pc = "generated"
  /\ cli.out.codeID = <<"0", "z", "0", "z", "0", "z", "0", "z", "0", "z">>
  /\ cli.out.passphrase = <<"acid", "acme", "acme", "acid">>

\* ------------------------------------------------------ stopping the sweeper
\* StartCleanupLoop with a caller that closes the done channel, beside one
\* request goroutine that sends, fetches and asks for the count.
\* A goroutine that can take a step takes it before the clock moves on: a
\* step of the store lasts far less than the 30 s between two ticks.
Running ==
  \/ \E p \in Handlers : handler[p].pc \notin {"idle", "done"}
  \/ sweeper.pc \in {"cleanupLock", "cleanupCS"}
  \/ sweeper.pc = "select" /\ (sweeper.tick \/ DoneReady(sweeper))

Elapse == ~Running /\ Tick

NextStop ==
  \/ \E body \in StoreBodies : RawSend(1, body)
  \/ PutLock(1)
  \/ PutBody(1)
  \/ handleSendWrite(1)
  \/ RawReceive(1, "a")
  \/ GetLock(1)
  \/ GetBody(1)
  \/ handleReceiveWrite(1)
  \/ RawHealth(1)
  \/ CountRLock(1)
  \/ CountBody(1)
  \/ handleHealthWrite(1)
  \/ SweeperTick
  \/ CleanupLock
  \/ CleanupBody
  \/ Stop
  \/ SweeperDone
  \/ Elapse

SpecStop == Init /\ [][NextStop]_vars

\* the scheduler runs every goroutine that can run, sync.RWMutex hands the
\* lock to every waiter in turn, select takes a case that stays ready, and
\* time passes
FairStop ==
  /\ SpecStop
  /\ WF_vars(PutBody(1)) /\ WF_vars(GetBody(1)) /\ WF_vars(CountBody(1))
  /\ SF_vars(PutLock(1)) /\ SF_vars(GetLock(1)) /\ SF_vars(CountRLock(1))
  /\ WF_vars(handleSendWrite(1)) /\ WF_vars(handleReceiveWrite(1))
  /\ WF_vars(handleHealthWrite(1))
  /\ SF_vars(CleanupLock) /\ WF_vars(CleanupBody)
  /\ SF_vars(SweeperTick) /\ SF_vars(SweeperDone)
  /\ WF_vars(Elapse)

\* C24: once the done channel is closed the sweeper goroutine returns, it
\* does so before one interval has passed, and after it has returned it
\* takes no lock and runs no Cleanup.
C24_StopsPromptly ==
  /\ sweeper.done ~> sweeper.pc = "returned"
  /\ [](sweeper.done /\ sweeper.pc # "returned" => now - sweeper.stopAt < CleanupSeconds * Second)
  /\ [][sweeper.pc = "returned" =>
          (sweeper' = sweeper /\ mu' # SweeperId
           /\ (blobs' # blobs => \E p \in Handlers : handler'[p] # handler[p]))]_vars

\* the sweeper has returned and an entry past its TTL stays in the map
C24_Witness ==
  /\ sweeper.pc = "returned" /\ sweeper.done
  /\ now > sweeper.stopAt
  /\ \E id \in DOMAIN blobs : CleanupExpired(blobs[id], now)

\* C27: every Put, GetAndDelete, Cleanup and Count call returns, and when it
\* has returned the lock it took is free again, on the early returns too; so
\* no caller waits for the lock forever.
C27_NoBlocking ==
  /\ \A p \in Handlers :
       handler[p].pc \in {"putLock", "putCS", "getLock", "getCS", "countLock", "countCS"}
         ~> handler[p].pc \notin {"putLock", "putCS", "getLock", "getCS", "countLock", "countCS"}
  /\ sweeper.pc \in {"cleanupLock", "cleanupCS"} ~> sweeper.pc = "select"
  /\ [](\A p \in Handlers : mu = p => handler[p].pc \in {"putCS", "getCS"})
  /\ [](mu = SweeperId => sweeper.pc = "cleanupCS")

\* a Put that found its code ID taken has returned early; the sweeper, which
\* waited for the lock meanwhile, now holds it
C27_Witness ==
  /\ handler[1].op = "send" /\ handler[1].pc = "sendWrite" /\ ~handler[1].ok
  /\ sweeper.pc = "cleanupCS" /\ mu = SweeperId

\* C28: while the stop signal is not given, every entry of the map is removed
\* in the end, by a fetch or by a sweep after its TTL has elapsed (here: every
\* entry whose TTL ends before the last tick of the model's clock).
C28_EventuallyRemoved ==
  \A id \in CodeIDs :
    (/\ id \in DOMAIN blobs
     /\ \E k \in 1..MaxTime :
          TickerFires(k * Second) /\ k * Second - blobs[id].CreatedAt > blobs[id].TTL)
      ~> (id \notin DOMAIN blobs \/ sweeper.done)

\* a sweep has removed an entry that no fetch had taken
C28_Witness ==
  /\ ~sweeper.done /\ sweeper.pc = "select" /\ sweeper.removed = 1
  /\ ins["b"].n = 1 /\ ins["b"].gone = 1 /\ "b" \notin DOMAIN blobs

\* C29: handleReceive removes the blob before it writes the response: from
\* the return of GetAndDelete on, while the response is written and after,
\* the entry that was delivered is not in the map (an entry under its code ID
\* is a later insertion that no fetch has returned).
C29_DeletedBeforeResponse ==
  \A p \in Handlers :
    (/\ handler[p].op = "receive"
     /\ \/ handler[p].pc = "receiveWrite" /\ handler[p].data # Nil
        \/ handler[p].pc = "done" /\ handler[p].resp.status = StatusOK)
      => (handler[p].id \in DOMAIN blobs => ins[handler[p].id].got = 0)

\* the response with the data has been written and the code ID is free
C29_Witness ==
  \E p \in Handlers :
    /\ handler[p].op = "receive" /\ handler[p].pc = "done"
    /\ handler[p].resp.status = StatusOK /\ handler[p].resp.data = Str("d1")
    /\ handler[p].id \notin DOMAIN blobs

\* ------------------------------------------------------- concurrent Puts
\* send requests alone, under one code ID and with different data
NextPut ==
  \/ \E p \in Handlers, data \in DataStrings, ttl \in ReqTTLs :
       RawSend(p, SendRequest("a", data, ttl))
  \/ \E p \in Handlers : PutLock(p)
  \/ \E p \in Handlers : PutBody(p)
  \/ \E p \in Handlers : handleSendWrite(p)

SpecPut == Init /\ [][NextPut]_vars

\* C30: of the Put calls under one code ID that was absent, exactly one
\* returns true and the others false, and the data stored is that of the
\* call that returned true.
C30_OneWinner ==
  \A p \in Handlers :
    PutReturned(handler[p]) =>
      /\ ins[handler[p].id].n = 1
      /\ handler[p].id \in DOMAIN blobs
      /\ handler[p].ok => blobs[handler[p].id].Data = Bytes(handler[p].req.data)
      /\ \A q \in Handlers \ {p} :
           (PutReturned(handler[q]) /\ handler[q].id = handler[p].id)
             => ~(handler[p].ok /\ handler[q].ok)

\* two Puts under one code ID have returned, the first true and the second,
\* with other data, false; the map holds the data of the first
C30_Witness ==
  /\ PutReturned(handler[1]) /\ PutReturned(handler[2])
  /\ handler[1].ok /\ ~handler[2].ok
  /\ handler[1].req.data = Str("d1") /\ handler[2].req.data = Str("d2")
  /\ blobs["a"].Data = Bytes(Str("d1"))

\* ------------------------------------------------------------- no retry
\* one send and one receive beside another client whose upload has taken the
\* code ID the sender draws: the sender's upload meets a conflict
NextRetry ==
  \/ \E p \in Handlers, ttl \in ReqTTLs :
       RawSend(p, SendRequest("a", Str("d2"), ttl))
  \/ \E c \in Senders, repoOK, isCommit, patchOK \in BOOLEAN, ttlStr \in TTLStrs :
       runSendPrepare(c, repoOK, isCommit, patchOK, <<"patch", "p1">>, "a",
                      SentPassphrase, "n1", ttlStr)
  \/ \E c \in Senders, p \in Handlers : clientSendPost(c, p)
  \/ \E c \in Senders : runSendFinish(c)
  \/ \E args \in {<<GenerateCode("a", SentPassphrase).code>>, <<<<"a">>>>}, repoOK \in BOOLEAN : runReceivePrepare("r1", args, repoOK)
  \/ \E p \in Handlers : clientReceiveGet("r1", p)
  \/ \E applyOK \in BOOLEAN : runReceiveFinish("r1", applyOK)
  \/ \E p \in Handlers : PutLock(p)
  \/ \E p \in Handlers : PutBody(p)
  \/ \E p \in Handlers : handleSendWrite(p)
  \/ \E p \in Handlers : GetLock(p)
  \/ \E p \in Handlers : GetBody(p)
  \/ \E p \in Handlers : handleReceiveWrite(p)

SpecRetry == InitCLI /\ [][NextRetry]_vars

\* C26: a run of send draws its code once and transmits at most one upload,
\* and when the upload fails (a conflict included) it returns an error and
\* prints no receive command; a run of receive transmits at most one fetch.
\* No command goes back to an earlier step.
C26_NoRetry ==
  [][/\ \A c \in Clients :
          /\ cli[c].pc \in {"post", "get"} => cli'[c].pc \in {cli[c].pc, "await"}
          /\ cli[c].pc = "await" => cli'[c].pc \in {"await", "exit"}
          /\ cli[c].pc = "exit" => cli'[c] = cli[c]
          /\ cli[c].pc # "start" => cli'[c].code = cli[c].code
          /\ (c \in Senders /\ cli[c].pc = "await" /\ cli'[c].pc = "exit"
              /\ ~handler[cli[c].conn].resp.ok)
               => (cli'[c].err # "" /\ cli'[c].stdout = <<>>)
     /\ wire' # wire =>
          \E c \in Clients :
            /\ cli[c].pc \in {"post", "get"} /\ cli'[c].pc = "await"
            /\ wire' = wire \cup {IF cli[c].pc = "post" THEN PostMessage(cli[c].req)
                                   ELSE GetMessage(cli[c].codeID)}]_vars

\* the sender's upload met a conflict: send returned the error, printed
\* nothing, and the one request it transmitted left the other blob in place
C26_Witness ==
  /\ cli["s1"].pc = "exit" /\ cli["s1"].err = "upload failed: server error"
  /\ cli["s1"].stdout = <<>>
  /\ "a" \in DOMAIN blobs /\ blobs["a"].Data = Bytes(Str("d2"))
  /\ Cardinality({w \in wire : w.method = "POST"}) = 1
  /\ \E p \in Handlers : handler[p].resp.status = StatusConflict

\* ------------------------------------------------------------ frame effects
\* C31: Put(k, ...) and GetAndDelete(k) leave every entry under another code
\* ID as it is, GetAndDelete of an absent code ID leaves the map as it is, and
\* no step of any operation changes the data, creation time or TTL of an
\* entry that stays in the map: entries are only inserted or deleted.
C31_Frame ==
  [][LET Others(k) == CodeIDs \ {k}
         Same(k) == /\ (k \in DOMAIN blobs') = (k \in DOMAIN blobs)
                    /\ k \in DOMAIN blobs => blobs'[k] = blobs[k]
     IN /\ \A p \in Handlers :
             /\ PutStep(p) => \A k \in Others(handler[p].id) : Same(k)
             /\ GetStep(p) => /\ \A k \in Others(handler[p].id) : Same(k)
                              /\ handler[p].id \notin DOMAIN blobs => blobs' = blobs
        /\ \A k \in DOMAIN blobs \cap DOMAIN blobs' : blobs'[k] = blobs[k]]_vars

\* a Put of "b" has stored its entry at a later instant than the entry of
\* "a", which is still in the map with its own creation time
C31_Witness ==
  /\ \E p \in Handlers : /\ PutReturned(handler[p]) /\ handler[p].ok
                         /\ handler[p].id = "b"
  /\ {"a", "b"} \subseteq DOMAIN blobs
  /\ blobs["a"].CreatedAt < blobs["b"].CreatedAt

\* ------------------------------------------------------- one expiry predicate
\* C32: GetAndDelete and Cleanup decide expiry alike, by age > TTL. A
\* GetAndDelete of a stored entry returns nil iff Cleanup at that instant
\* would remove the entry, a Cleanup removes exactly the entries for which
\* GetAndDelete at that instant would return nil, and an entry whose age
\* equals its TTL is returned by GetAndDelete and kept by Cleanup.
C32_SameExpiry ==
  [][LET Age(id) == now - blobs[id].CreatedAt
     IN /\ \A p \in Handlers :
             (GetStep(p) /\ handler[p].id \in DOMAIN blobs) =>
               LET id == handler[p].id
               IN /\ (handler'[p].data = Nil) = CleanupExpired(blobs[id], now)
                  /\ (handler'[p].data = Nil) = (Age(id) > blobs[id].TTL)
                  /\ Age(id) = blobs[id].TTL => handler'[p].data = blobs[id].Data
        /\ CleanupStep =>
             \A id \in DOMAIN blobs :
               /\ (id \notin DOMAIN blobs') = (GetAndDelete(blobs, id, now).data = Nil)
               /\ Age(id) = blobs[id].TTL => id \in DOMAIN blobs']_vars

\* the sweeper has taken the tick of this instant and its Cleanup has kept
\* the entry of "a", whose age equals its TTL; a GetAndDelete of "a" holds
\* the lock at the same instant
C32_Witness ==
  /\ "a" \in DOMAIN blobs /\ now - blobs["a"].CreatedAt = blobs["a"].TTL
  /\ now > 0 /\ TickerFires(now) /\ ~sweeper.tick /\ sweeper.pc = "select"
  /\ \E p \in Handlers : handler[p].pc = "getCS" /\ handler[p].id = "a" /\ mu = p

\* ------------------------------------------------------ the steps of receive
\* two receives beside one upload under the code ID "a": the sender's, or
\* that of another client whose data is not base64
NextReceive ==
  \/ \E p \in Handlers, ttl \in ReqTTLs :
       RawSend(p, SendRequest("a", Str("d2"), ttl))
  \/ \E c \in Senders :
       runSendPrepare(c, TRUE, FALSE, TRUE, <<"patch", "p1">>, "a",
                      SentPassphrase, "n1", "1s")
  \/ \E c \in Senders, p \in Handlers : clientSendPost(c, p)
  \/ \E c \in Senders : runSendFinish(c)
  \/ \E c \in Receivers, args \in ReceiveArgs, repoOK \in BOOLEAN :
       runReceivePrepare(c, args, repoOK)
  \/ \E c \in Receivers, p \in Handlers : clientReceiveGet(c, p)
  \/ \E c \in Receivers, applyOK \in BOOLEAN : runReceiveFinish(c, applyOK)
  \/ \E p \in Handlers : PutLock(p)
  \/ \E p \in Handlers : PutBody(p)
  \/ \E p \in Handlers : handleSendWrite(p)
  \/ \E p \in Handlers : GetLock(p)
  \/ \E p \in Handlers : GetBody(p)
  \/ \E p \in Handlers : handleReceiveWrite(p)

SpecReceive == InitCLI /\ [][NextReceive]_vars

\* C33: receive parses the code, then looks for the repository, then fetches,
\* then decodes, derives the key, decrypts and applies, and returns at the
\* first step that fails. A run that fails at the code or at the repository
\* returns the error of the code when the code is malformed, sends nothing
\* and leaves the relay as it is; only a run whose code parsed transmits a
\* fetch; after the fetch the error is that of the first failing step and the
\* patch is handed to git only when fetch, decode and decrypt succeeded.
C33_ReceiveOrder ==
  [][\A c \in Receivers :
       LET f == cli[c]
           g == cli'[c]
       IN /\ f.pc = "start" => g.pc \in {"start", "get", "exit"}
          /\ f.pc = "get" => g.pc \in {"get", "await"}
          /\ f.pc = "await" => g.pc \in {"await", "exit"}
          /\ (f.pc = "start" /\ g.pc = "exit") =>
               /\ UNCHANGED <<blobs, mu, handler, reqs, ins, wire>>
               /\ g.err = IF ParseCode(g.code).err # "" THEN ParseCode(g.code).err
                          ELSE "not a git repository"
               /\ g.patch = NoBytes
          /\ (f.pc = "start" /\ g.pc = "get") =>
               /\ ParseCode(g.code).err = ""
               /\ g.codeID = ParseCode(g.code).codeID
               /\ UNCHANGED <<blobs, mu, handler, reqs, ins, wire>>
          /\ (f.pc = "get" /\ g.pc = "await") =>
               /\ wire' = wire \cup {GetMessage(f.codeID)}
               /\ reqs' = reqs + 1
          /\ (f.pc = "await" /\ g.pc = "exit") =>
               LET resp == handler[f.conn].resp
                   dec == DecodeString(resp.data)
                   d == Decrypt(dec.bytes, DeriveKey(f.passphrase))
               IN /\ UNCHANGED <<blobs, mu, handler, reqs, ins, wire>>
                  /\ ~resp.ok =>
                       /\ g.err \in {"patch not found", "server error"}
                       /\ g.patch = NoBytes
                  /\ (resp.ok /\ dec.err # "") =>
                       (g.err = dec.err /\ g.patch = NoBytes)
                  /\ (resp.ok /\ dec.err = "" /\ d.err # "") =>
                       (g.err = d.err /\ g.patch = NoBytes)
                  /\ (resp.ok /\ dec.err = "" /\ d.err = "") =>
                       (g.err \in {"", "applying patch"} /\ g.patch = d.patch)]_vars

\* the sender's blob is in the store; one receive was given a code without
\* passphrase, the other the sender's code outside a repository: both have
\* returned their error and no fetch was transmitted
C33_Witness ==
  /\ cli["s1"].pc = "exit" /\ cli["s1"].err = ""
  /\ "a" \in DOMAIN blobs
  /\ \E c, d \in Receivers :
       /\ cli[c].pc = "exit" /\ cli[c].code = <<"a">>
       /\ cli[c].err = ParseCode(<<"a">>).err /\ cli[c].err # ""
       /\ cli[d].pc = "exit" /\ cli[d].code = cli["s1"].code
       /\ cli[d].err = "not a git repository"
  /\ {w \in wire : w.method = "GET"} = {}

\* ------------------------------------------------- consumed before decrypted
\* C34: the fetch consumes the blob whatever receive does with it next. When
\* a receive takes up a response that carries data, the blob it was served
\* has been deleted from the store (an entry under the code ID is a later
\* upload that nobody fetched), before it decodes, decrypts or applies; and while the code ID has been
\* uploaded once, a receive that failed at decode, decrypt or apply leaves
\* every other receive of that code ID that reached the relay with not-found.
C34_ConsumedFirst ==
  /\ [][\A c \in Receivers :
          (ReceiveFinishStep(c) /\ handler[cli[c].conn].resp.ok) =>
             LET h == handler[cli[c].conn]
             IN /\ ins[h.id].gone > 0
                /\ h.id \in DOMAIN blobs => ins[h.id].got = 0]_vars
  /\ [](\A c, d \in Receivers :
          (/\ c # d
           /\ cli[c].pc = "exit"
           /\ cli[c].err \in {"decoding data", "decryption failed (wrong passphrase?)",
                               "applying patch"}
           /\ cli[d].pc = "exit" /\ cli[d].codeID = cli[c].codeID
           /\ ins[cli[c].codeID].n = 1)
            => /\ cli[c].codeID \notin DOMAIN blobs
               /\ cli[d].err = "patch not found"
               /\ cli[d].patch = NoBytes)

\* the sender's blob was fetched by a receive with the right code ID and a
\* wrong passphrase, which failed to decrypt; the receive with the sender's
\* own code that followed got not-found
C34_Witness ==
  /\ cli["s1"].pc = "exit" /\ cli["s1"].err = ""
  /\ ins["a"].n = 1
  /\ \E c, d \in Receivers :
       /\ cli[c].pc = "exit" /\ cli[c].codeID = cli["s1"].codeID
       /\ cli[c].passphrase # cli["s1"].passphrase
       /\ cli[c].err = "decryption failed (wrong passphrase?)"
       /\ cli[d].pc = "exit" /\ cli[d].code = cli["s1"].code
       /\ cli[d].err = "patch not found"

\* ------------------------------------------------------ what send prints
\* runSendWithDeps, step 2: the switch over the positional argument and
\* --staged, with the patch of deps.GetCommitPatch(args[0]), of
\* deps.GetStagedDiff() or of deps.GetDiff()
CollectPatch(args, staged) ==
  IF Len(args) > 0 THEN [patch |-> <<"patch", args[1]>>, isCommit |-> TRUE]
  ELSE IF staged THEN [patch |-> <<"patch", "staged">>, isCommit |-> FALSE]
  ELSE [patch |-> <<"patch", "diff">>, isCommit |-> FALSE]

\* send with and without a positional argument and --staged, beside another
\* client whose upload may take the code ID first
NextSend ==
  \/ \E c \in Senders, args \in {<<>>, <<"HEAD">>, <<"main..feature">>},
        staged, repoOK, patchOK \in BOOLEAN, ttlStr \in TTLStrs :
       runSendPrepare(c, repoOK, CollectPatch(args, staged).isCommit, patchOK,
                      CollectPatch(args, staged).patch, "a", SentPassphrase, "n1", ttlStr)
  \/ \E c \in Senders, p \in Handlers : clientSendPost(c, p)
  \/ \E c \in Senders : runSendFinish(c)
  \/ \E p \in Handlers, ttl \in ReqTTLs :
       RawSend(p, SendRequest("a", Str("d2"), ttl))
  \/ \E p \in Handlers : PutLock(p)
  \/ \E p \in Handlers : PutBody(p)
  \/ \E p \in Handlers : handleSendWrite(p)

SpecSend == InitCLI /\ [][NextSend]_vars

\* C36: send writes to stdout only in the step that takes up the response of
\* an upload the relay accepted. It then prints the plain receive command,
\* followed by the --commit receive command iff a positional commit ref or
\* range was given, and writes the hint for it to stderr under the same
\* condition; a send of the working tree or of the staged changes prints
\* neither, and a send that fails prints no command at all.
C36_Printed ==
  [][\A c \in Senders :
       LET f == cli[c]
           g == cli'[c]
           Plain == <<"git-share receive", g.code>>
           Commit == <<"git-share receive", g.code, "--commit">>
           Hint == "OR to receive as a commit instead of a patch:"
           Hinted == \E i \in 1..Len(g.stderr) : g.stderr[i] = Hint
           RefGiven == g.patch \notin {NoBytes, CollectPatch(<<>>, TRUE).patch,
                                       CollectPatch(<<>>, FALSE).patch}
       IN /\ g.stdout # f.stdout =>
               /\ f.pc = "await" /\ g.pc = "exit" /\ g.err = ""
               /\ handler[f.conn].op = "send"
               /\ handler[f.conn].resp.ok
               /\ handler[f.conn].resp.status = StatusCreated
          /\ (f.pc # "exit" /\ g.pc = "exit") =>
               /\ g.err = "" => /\ g.stdout = IF RefGiven THEN <<Plain, Commit>>
                                              ELSE <<Plain>>
                                /\ Hinted = RefGiven
               /\ g.err # "" => (g.stdout = <<>> /\ ~Hinted)]_vars

\* a send of the commit HEAD has uploaded and printed both commands and the
\* hint
C36_Witness ==
  /\ cli["s1"].pc = "exit" /\ cli["s1"].err = ""
  /\ cli["s1"].patch = CollectPatch(<<"HEAD">>, FALSE).patch
  /\ cli["s1"].stdout = <<<<"git-share receive", cli["s1"].code>>,
                          <<"git-share receive", cli["s1"].code, "--commit">>>>
  /\ \E i \in 1..Len(cli["s1"].stderr) :
       cli["s1"].stderr[i] = "OR to receive as a commit instead of a patch:"
  /\ "a" \in DOMAIN blobs

\* ------------------------------------------------------------ parseByteSize
\* The sizes are scaled: a K of the model holds Kibi bytes (1024 in the
\* code) and int64 is SizeBits wide (64 in the code), so that a product
\* beyond int64 is within the reach of a short text. A text is the list of
\* its characters, at most MaxText of them.
Kibi == 4
SizeBits == 10
MaxText == 4

\* parseByteSize(s): the outcomes (size, err) a build can produce. The
\* conversion int64(num * multiplier) of a product that int64 cannot hold
\* is implementation-dependent in Go: it yields the least int64 on amd64 and
\* the greatest on arm64.
parseByteSize(text) ==
  LET Digits == {"0", "1", "2", "3", "4", "5", "6", "7", "8", "9"}
      DigitValue(ch) == CHOOSE v \in 0..9 : ToString(v) = ch
      MaxInt64 == 2^(SizeBits - 1) - 1
      MinInt64 == -(2^(SizeBits - 1))
      Err(e) == {[size |-> 0, err |-> e]}
      \* strings.TrimSpace
      TrimSpace(t) ==
        LET Kept == {i \in 1..Len(t) : t[i] # " "}
        IN IF Kept = {} THEN <<>>
           ELSE LET lo == CHOOSE i \in Kept : \A j \in Kept : i <= j
                    hi == CHOOSE i \in Kept : \A j \in Kept : i >= j
                IN SubSeq(t, lo, hi)
      \* strings.ToUpper
      ToUpper(t) ==
        [i \in 1..Len(t) |->
           CASE t[i] = "b" -> "B" [] t[i] = "k" -> "K" [] t[i] = "m" -> "M"
             [] t[i] = "g" -> "G" [] t[i] = "t" -> "T" [] OTHER -> t[i]]
      s == TrimSpace(text)
      \* the loop over the numeric part: the number of leading digits and dots
      i == Cardinality({k \in 1..Len(s) :
                          \A j \in 1..k : s[j] \in Digits \cup {"."}})
      numStr == SubSeq(s, 1, i)
      unit == TrimSpace(ToUpper(SubSeq(s, i + 1, Len(s))))
      \* strconv.ParseFloat of digits and dots: the value is n / d
      dots == {k \in 1..i : numStr[k] = "."}
      digits == SelectSeq(numStr, LAMBDA ch : ch # ".")
      RECURSIVE Value(_)
      Value(ds) == IF ds = <<>> THEN 0
                   ELSE 10 * Value(SubSeq(ds, 1, Len(ds) - 1)) + DigitValue(ds[Len(ds)])
      n == Value(digits)
      d == IF dots = {} THEN 1 ELSE 10^(i - (CHOOSE k \in dots : TRUE))
      multiplier ==
        CASE unit \in {<<"B">>, <<>>} -> 1
          [] unit \in {<<"K", "B">>, <<"K">>} -> Kibi
          [] unit \in {<<"M", "B">>, <<"M">>} -> Kibi * Kibi
          [] unit \in {<<"G", "B">>, <<"G">>} -> Kibi * Kibi * Kibi
          [] OTHER -> 0
      product == (n * multiplier) \div d
      results == IF product <= MaxInt64 THEN {product} ELSE {MinInt64, MaxInt64}
  IN IF s = <<>> THEN Err("empty size string")
     ELSE IF i = 0 THEN Err("no numeric value found")
     ELSE IF Cardinality(dots) > 1 \/ digits = <<>> THEN Err("invalid number")
     ELSE IF multiplier = 0 THEN Err("unknown unit")
     ELSE UNION {IF result <= 0 THEN Err("size must be greater than zero")
                 ELSE {[size |-> result, err |-> ""]} : result \in results}

\* every text of up to MaxText characters of digits, dots, blanks and letters
InitSize ==
  /\ InitRelay /\ wire = {}
  /\ cli \in [pc : {"start"},
              text : UNION {[1..k -> {" ", "0", "1", "9", ".", "k", "b", "M", "G", "T"}] :
                              k \in 0..MaxText},
              out : {[size |-> 0, err |-> ""]}]

\* maxSize, err := parseByteSize(serveMaxSize)
ParseSizeCall ==
  /\ cli.pc = "start"
  /\ \E out \in parseByteSize(cli.text) :
       cli' = [cli EXCEPT !.pc = "parsed", !.out = out]
  /\ UNCHANGED <<blobs, mu, now, handler, sweeper, reqs, ins, wire>>

SpecSize == InitSize /\ [][ParseSizeCall]_vars

\* C37, as claimed: a text that is, between blanks, a decimal number and
\* then nothing or one of B, K, KB, M, MB, G, GB in any case is accepted
\* when the number times 1, Kibi, Kibi^2 or Kibi^3 has an integer part above
\* zero, and that integer part is returned; every other text gets an error
\* and the size 0.
C37_ParseByteSize ==
  cli.pc = "parsed" =>
    LET Digits == {"0", "1", "9"}
        Blank(t) == \A k \in 1..Len(t) : t[k] = " "
        Number(t) == /\ \A k \in 1..Len(t) : t[k] \in Digits \cup {"."}
                     /\ Cardinality({k \in 1..Len(t) : t[k] = "."}) <= 1
                     /\ \E k \in 1..Len(t) : t[k] \in Digits
        Units == [u \in {<<>>, <<"b">>} \cup
                        {<<c>> \o b : c \in {"k", "M", "G"}, b \in {<<>>, <<"b">>}} |->
                    IF u \in {<<>>, <<"b">>} THEN 1
                    ELSE IF u[1] = "k" THEN Kibi
                    ELSE IF u[1] = "M" THEN Kibi * Kibi ELSE Kibi * Kibi * Kibi]
        Digit(ch) == IF ch = "0" THEN 0 ELSE IF ch = "1" THEN 1 ELSE 9
        RECURSIVE Scaled(_, _)
        \* the digits of t read as a whole number, and 10^(digits after the dot)
        Scaled(t, seen) ==
          IF t = <<>> THEN [n |-> 0, d |-> 1]
          ELSE LET r == Scaled(SubSeq(t, 1, Len(t) - 1), seen)
                   last == t[Len(t)]
               IN IF last = "." THEN r
                  ELSE [n |-> 10 * r.n + Digit(last),
                        d |-> IF \E k \in 1..(Len(t) - 1) : t[k] = "." THEN 10 * r.d
                              ELSE r.d]
        Parses == {<<a, b, c, e, f>> \in
                     {<<a, b, c, e, f>> \in (0..MaxText) \X (0..MaxText) \X (0..MaxText)
                                              \X (0..MaxText) \X (0..MaxText) :
                        a <= b /\ b <= c /\ c <= e /\ e <= f /\ f = Len(cli.text)} :
                     /\ Blank(SubSeq(cli.text, 1, a))
                     /\ Number(SubSeq(cli.text, a + 1, b))
                     /\ Blank(SubSeq(cli.text, b + 1, c))
                     /\ SubSeq(cli.text, c + 1, e) \in DOMAIN Units
                     /\ Blank(SubSeq(cli.text, e + 1, f))}
        Sizes == {(Scaled(SubSeq(cli.text, q[1] + 1, q[2]), 0).n
                     * Units[SubSeq(cli.text, q[3] + 1, q[4])])
                    \div Scaled(SubSeq(cli.text, q[1] + 1, q[2]), 0).d : q \in Parses}
    IN IF \E v \in Sizes : v > 0
       THEN cli.out.err = "" /\ cli.out.size \in Sizes
       ELSE cli.out.err # "" /\ cli.out.size = 0

====
